---- MODULE Spec2Model ----
(***************************************************************************)
(* State-machine model of animations.js: the snowflake field               *)
(* (SnowflakeManager), the canvas particle system (ParticlesSystem) and    *)
(* the application handlers (AlpineBioApp) that drive them.                *)
(*                                                                         *)
(* Numbers.  JavaScript numbers are modelled as fixed-point integers:      *)
(*   positions        1 px    = PX units                                   *)
(*   time             1 ms    = 100 units (FRAME_TIME 16.67 ms = 1667)     *)
(*   fall speed       1       = 8 units                                    *)
(*   wind, windStrength 1     = 4 units                                    *)
(*   sin(...)         1       = 2 units                                    *)
(*   size 1 = 10, opacity 1 = 1000, rotation in whole degrees              *)
(* Math.random() returns k/RDen for k in 0..RDen-1; with these scales all  *)
(* the arithmetic of the source is exact on the values the model draws.    *)
(***************************************************************************)
EXTENDS Integers, Sequences, FiniteSets, TLC

VARIABLES
    innerWidth,     \* window.innerWidth  (px)
    innerHeight,    \* window.innerHeight (px)
    hidden,         \* document.hidden
    domSnow,        \* the document has an element #snowflakes
    domCanvas,      \* the document has an element #particles-canvas
    children,       \* ids of the child elements of #snowflakes, in order
    managers,       \* every SnowflakeManager constructed so far
    modSnow,        \* app.modules.get('snowflakeManager'): index, 0 = absent
    ps,             \* the ParticlesSystem of app.modules
    frames,         \* pending requestAnimationFrame callbacks
    nextHandle,     \* the next requestAnimationFrame id
    nextId,         \* the next Utils.generateId() value
    now,            \* time stamp of the last animation frame
    resizeTimers,   \* pending setTimeout(..., 100) of handleResize
    themeTimers,    \* pending setTimeout(..., 100) of handleThemeChange
    debounced,      \* debounced resize handlers whose timer is pending
    settingsParticles, \* SettingsManager.settings.particles
    visListeners,   \* 'visibilitychange' listeners, in registration order
    thrown,         \* an exception left a constructor or a handler
    clock,          \* Date.now() / performance.now() of the timed specs (ms)
    timers,         \* pending setTimeout callbacks of the timed specs
    nextTimer,      \* the next setTimeout id
    timeout,        \* `timeout` of the closure made by Utils.debounce (0: none)
    called,         \* history of the debounced resize handler (SpecResize)
    modules,        \* the keys of app.modules, in insertion order
    isInitialized,  \* app.isInitialized
    pm,             \* the PerformanceMonitor
    domCount,       \* the document has an element #view-count
    vc,             \* the ViewCounter and what its element shows
    uc,             \* the updateCount() call in progress (SpecView)
    storage,        \* localStorage['viewCount']
    readyState,     \* document.readyState
    initCalls,      \* the calls of app.init(): where each is, and the microtasks
    theme,          \* the ThemeManager, localStorage['theme'], the system scheme
    throttled,      \* the closure made by Utils.throttle and its history
    lang,           \* the LanguageManager, localStorage['language'], its DOM
    konami,         \* the closure of setupKonamiCode and its history
    friends,        \* the InteractionManager's flag, #friends-list, #friends-toggle
    lastOp,         \* the method called by the last step (history)
    steps           \* the number of calls or events so far (bounded specs)

vars == <<innerWidth, innerHeight, hidden, domSnow, domCanvas, children,
          managers, modSnow, ps, frames, nextHandle, nextId, now,
          resizeTimers, themeTimers, debounced, settingsParticles,
          visListeners, thrown, clock, timers, nextTimer, timeout, called,
          modules, isInitialized, pm, domCount, vc, uc, storage,
          readyState, initCalls, theme, throttled, lang, konami, friends,
          lastOp, steps>>

(***************************************************************************)
(* Bounds of the model.                                                    *)
(***************************************************************************)
MaxHandle == 4
MaxManagers == 2
MaxThemeTimers == 1
NSeeds == 2
MaxCount == 2
MaxSteps == 4

(***************************************************************************)
(* Program constants (CONFIG) and literals of the source.                  *)
(***************************************************************************)
SNOWFLAKE_COUNT == 30
FRAME_TIME == 1667
NSymbols == 12
RespawnMargin == 50
SpawnTop == 100
SpawnBottom == 10
MaxParticles == 50
ParticleArea == 10000
DEBOUNCE_DELAY == 250
THROTTLE_DELAY == 16
RESIZE_RESTART_DELAY == 100
TIMEOUT == 5000
RETRY_ATTEMPTS == 3
RETRY_DELAY == 1000
CACHE_MAX_AGE == 3600000
COUNT_DURATION == 2000

PX == 128 * 100
RDen == 2 * 2
Seeds == 0 .. (NSeeds - 1)
Viewports == { <<200, 100>>, <<100, 100>> }
\* Inputs of the tick update in SpecKin: deltaTime of 1 ms, of one frame
\* and of 1.6 s (a first frame, a frame after a pause); sin = -1, 1.
DeltaTimes == { 100, 1667, 160000 }
SinValues == { -2, 2 }
\* Time stamps of SpecField advance by half a frame or by a frame
FieldGaps == { 833, 1667 }
\* Inputs of the application-level specification: one frame interval, one
\* value of the sine and the first viewport; the tick inputs are varied in
\* SpecField.
LifeGaps == { 1667 }
LifeSin == { 2 }
LifeViewport == <<200, 100>>
LifeSeeds == { 0 }

(***************************************************************************)
(* Math.random(): the n-th draw of an operation seeded with `seed`, as the *)
(* numerator k of k/RDen.                                                  *)
(***************************************************************************)
Rnd(seed, n) == ((seed + n) + ((seed + n) \div RDen)) % RDen

\* Utils.randomBetween(min, max) with Math.random() = r/RDen
randomBetween(min, max, r) == ((r * (max - min)) \div RDen) + min

Min(a, b) == IF a < b THEN a ELSE b
Max(a, b) == IF a > b THEN a ELSE b

(***************************************************************************)
(* The state as one record, so that operations compose as functions.       *)
(***************************************************************************)
St == [ innerWidth |-> innerWidth, innerHeight |-> innerHeight,
        hidden |-> hidden, domSnow |-> domSnow, domCanvas |-> domCanvas,
        children |-> children, managers |-> managers, modSnow |-> modSnow,
        ps |-> ps, frames |-> frames, nextHandle |-> nextHandle,
        nextId |-> nextId, now |-> now, resizeTimers |-> resizeTimers,
        themeTimers |-> themeTimers, debounced |-> debounced,
        settingsParticles |-> settingsParticles,
        visListeners |-> visListeners, thrown |-> thrown,
        clock |-> clock, timers |-> timers, nextTimer |-> nextTimer,
        timeout |-> timeout, called |-> called, modules |-> modules,
        isInitialized |-> isInitialized, pm |-> pm, domCount |-> domCount,
        vc |-> vc, uc |-> uc, storage |-> storage,
        readyState |-> readyState, initCalls |-> initCalls,
        theme |-> theme, throttled |-> throttled, lang |-> lang,
        konami |-> konami, friends |-> friends ]

Become(s, op) ==
    /\ innerWidth' = s.innerWidth
    /\ innerHeight' = s.innerHeight
    /\ hidden' = s.hidden
    /\ domSnow' = s.domSnow
    /\ domCanvas' = s.domCanvas
    /\ children' = s.children
    /\ managers' = s.managers
    /\ modSnow' = s.modSnow
    /\ ps' = s.ps
    /\ frames' = s.frames
    /\ nextHandle' = s.nextHandle
    /\ nextId' = s.nextId
    /\ now' = s.now
    /\ resizeTimers' = s.resizeTimers
    /\ themeTimers' = s.themeTimers
    /\ debounced' = s.debounced
    /\ settingsParticles' = s.settingsParticles
    /\ visListeners' = s.visListeners
    /\ thrown' = s.thrown
    /\ clock' = s.clock
    /\ timers' = s.timers
    /\ nextTimer' = s.nextTimer
    /\ timeout' = s.timeout
    /\ called' = s.called
    /\ modules' = s.modules
    /\ isInitialized' = s.isInitialized
    /\ pm' = s.pm
    /\ domCount' = s.domCount
    /\ vc' = s.vc
    /\ uc' = s.uc
    /\ storage' = s.storage
    /\ readyState' = s.readyState
    /\ initCalls' = s.initCalls
    /\ theme' = s.theme
    /\ throttled' = s.throttled
    /\ lang' = s.lang
    /\ konami' = s.konami
    /\ friends' = s.friends
    /\ lastOp' = op

\* requestAnimationFrame(cb): a fresh id; owner 0 is the ParticlesSystem,
\* owner i > 0 the i-th SnowflakeManager.
requestAnimationFrame(s, owner) ==
    [s EXCEPT !.frames = @ \cup { [h |-> s.nextHandle, owner |-> owner] },
              !.nextHandle = @ + 1]

\* cancelAnimationFrame(h)
cancelAnimationFrame(s, h) ==
    [s EXCEPT !.frames = { f \in @ : f.h # h }]

\* setTimeout(cb, delay): a fresh id; kind names the callback, args what it
\* closes over.
setTimeout(s, kind, delay, args) ==
    [s EXCEPT !.timers = @ \cup { [ id |-> s.nextTimer, due |-> s.clock + delay,
                                    kind |-> kind, args |-> args ] },
              !.nextTimer = @ + 1]

\* clearTimeout(id); an id that is undefined or no longer pending: no effect
clearTimeout(s, id) ==
    [s EXCEPT !.timers = { tm \in @ : tm.id # id }]

(***************************************************************************)
(* SnowflakeManager                                                        *)
(***************************************************************************)
\* constructor, before init()
SnowflakeManager_fields(s) ==
    [ snowflakes |-> << >>, container |-> s.domSnow, isActive |-> FALSE,
      animationFrame |-> 0, lastUpdate |-> 0, windDirection |-> 0,
      windStrength |-> 4 ]

\* The snowflake object of createSnowflake if its speed were drawn from
\* [0, 2)
newSnowflake_still(s, seed, n) ==
    [ id |-> s.nextId,
      symbol |-> (Rnd(seed, n) * NSymbols) \div RDen,
      x |-> randomBetween(0, s.innerWidth * PX, Rnd(seed, n + 1)),
      y |-> randomBetween(-SpawnTop * PX, -SpawnBottom * PX, Rnd(seed, n + 2)),
      size |-> randomBetween(8, 20, Rnd(seed, n + 3)),
      speed |-> randomBetween(0, 16, Rnd(seed, n + 4)),
      wind |-> randomBetween(-4, 4, Rnd(seed, n + 5)),
      opacity |-> randomBetween(300, 800, Rnd(seed, n + 6)),
      rotation |-> 0,
      rotationSpeed |-> randomBetween(-2, 2, Rnd(seed, n + 7)) ]

\* The snowflake object built by createSnowflake from draws n .. n+7
newSnowflake(s, seed, n) ==
    [ id |-> s.nextId,
      symbol |-> (Rnd(seed, n) * NSymbols) \div RDen,
      x |-> randomBetween(0, s.innerWidth * PX, Rnd(seed, n + 1)),
      y |-> randomBetween(-SpawnTop * PX, -SpawnBottom * PX, Rnd(seed, n + 2)),
      size |-> randomBetween(8, 20, Rnd(seed, n + 3)),
      speed |-> randomBetween(4, 16, Rnd(seed, n + 4)),
      wind |-> randomBetween(-4, 4, Rnd(seed, n + 5)),
      opacity |-> randomBetween(300, 800, Rnd(seed, n + 6)),
      rotation |-> 0,
      rotationSpeed |-> randomBetween(-2, 2, Rnd(seed, n + 7)) ]

\* createSnowflake(): container.appendChild throws on a null container; the
\* catch block logs it and the pool is left as it was.
createSnowflake(s, i, seed, n) ==
    IF ~s.managers[i].container
    THEN s
    ELSE LET sf == newSnowflake(s, seed, n)
         IN [s EXCEPT !.children = Append(@, sf.id),
                      !.managers[i].snowflakes = Append(@, sf),
                      !.nextId = @ + 1]

\* `count` calls of createSnowflake in a loop, the k-th using draws
\* 8(k-1) .. and taking the k-th free id
createMany(s, i, seed, count) ==
    IF ~s.managers[i].container \/ count <= 0
    THEN s
    ELSE LET made == [k \in 1 .. count |->
                        newSnowflake([s EXCEPT !.nextId = @ + k - 1], seed,
                                     8 * (k - 1))]
         IN [s EXCEPT !.children = @ \o [k \in 1 .. count |-> made[k].id],
                      !.managers[i].snowflakes = @ \o made,
                      !.nextId = @ + count]

createSnowflakes(s, i, seed) == createMany(s, i, seed, SNOWFLAKE_COUNT)

\* The loop body of updateSnowflakes with the wrap test before the reset
\* of a snowflake that left through the bottom, and no reset of y
updateSnowflake_noreset(sf, k, deltaTime, windForce, seed, W, H) ==
    LET y1 == sf.y + sf.speed * deltaTime
        x1 == sf.x + (2 * sf.wind + windForce) * (PX \div 16)
        x3 == IF x1 > (W + RespawnMargin) * PX THEN -RespawnMargin * PX
              ELSE IF x1 < -RespawnMargin * PX THEN (W + RespawnMargin) * PX
              ELSE x1
    IN [sf EXCEPT !.x = x3, !.y = y1, !.rotation = @ + sf.rotationSpeed]

\* The loop body of updateSnowflakes if a snowflake that left through the
\* bottom were replaced by a new one (new speed and size, as createSnowflake
\* draws them) instead of being moved back to the top
updateSnowflake_renew(sf, k, deltaTime, windForce, seed, W, H) ==
    LET y1 == sf.y + sf.speed * deltaTime
        x1 == sf.x + (2 * sf.wind + windForce) * (PX \div 16)
        out == y1 > (H + RespawnMargin) * PX
        x3 == IF x1 > (W + RespawnMargin) * PX THEN -RespawnMargin * PX
              ELSE IF x1 < -RespawnMargin * PX THEN (W + RespawnMargin) * PX
              ELSE x1
    IN IF out
       THEN [sf EXCEPT !.x = randomBetween(0, W * PX, Rnd(seed, 2 * k + 1)),
                       !.y = randomBetween(-SpawnTop * PX, -SpawnBottom * PX,
                                           Rnd(seed, 2 * k)),
                       !.rotation = 0,
                       !.speed = randomBetween(4, 16, Rnd(seed + 1, k)),
                       !.size = randomBetween(8, 20, Rnd(seed + 2, k))]
       ELSE [sf EXCEPT !.x = x3, !.y = y1, !.rotation = @ + sf.rotationSpeed]

\* The loop body of updateSnowflakes if a snowflake that passed a side
\* margin were put on that margin and its wind reversed
updateSnowflake_reflect(sf, k, deltaTime, windForce, seed, W, H) ==
    LET y1 == sf.y + sf.speed * deltaTime
        x1 == sf.x + (2 * sf.wind + windForce) * (PX \div 16)
        out == y1 > (H + RespawnMargin) * PX
        y2 == IF out
              THEN randomBetween(-SpawnTop * PX, -SpawnBottom * PX,
                                 Rnd(seed, 2 * k))
              ELSE y1
        x2 == IF out
              THEN randomBetween(0, W * PX, Rnd(seed, 2 * k + 1))
              ELSE x1
        over == x2 > (W + RespawnMargin) * PX
        under == x2 < -RespawnMargin * PX
    IN [sf EXCEPT !.x = IF over THEN (W + RespawnMargin) * PX
                        ELSE IF under THEN -RespawnMargin * PX
                        ELSE x2,
                  !.wind = IF over \/ under THEN -@ ELSE @,
                  !.y = y2, !.rotation = @ + sf.rotationSpeed]

\* The loop body of updateSnowflakes if a respawned snowflake got its x
\* over the viewport widened by 100 px on each side
updateSnowflake_widespawn(sf, k, deltaTime, windForce, seed, W, H) ==
    LET y1 == sf.y + sf.speed * deltaTime
        x1 == sf.x + (2 * sf.wind + windForce) * (PX \div 16)
        out == y1 > (H + RespawnMargin) * PX
        y2 == IF out
              THEN randomBetween(-SpawnTop * PX, -SpawnBottom * PX,
                                 Rnd(seed, 2 * k))
              ELSE y1
        x2 == IF out
              THEN randomBetween(-SpawnTop * PX, (W + SpawnTop) * PX,
                                 Rnd(seed, 2 * k + 1))
              ELSE x1
        x3 == IF x2 > (W + RespawnMargin) * PX THEN -RespawnMargin * PX
              ELSE IF x2 < -RespawnMargin * PX THEN (W + RespawnMargin) * PX
              ELSE x2
    IN [sf EXCEPT !.x = x3, !.y = y2, !.rotation = @ + sf.rotationSpeed]

\* The loop body of updateSnowflakes if the wind force were taken anew for
\* each snowflake (here: with the sign alternating along the pool)
updateSnowflake_ownforce(sf, k, deltaTime, windForce, seed, W, H) ==
    LET y1 == sf.y + sf.speed * deltaTime
        x1 == sf.x + (2 * sf.wind
                        + (IF k % 2 = 0 THEN -windForce ELSE windForce))
                     * (PX \div 16)
        out == y1 > (H + RespawnMargin) * PX
        y2 == IF out
              THEN randomBetween(-SpawnTop * PX, -SpawnBottom * PX,
                                 Rnd(seed, 2 * k))
              ELSE y1
        x2 == IF out
              THEN randomBetween(0, W * PX, Rnd(seed, 2 * k + 1))
              ELSE x1
        x3 == IF x2 > (W + RespawnMargin) * PX THEN -RespawnMargin * PX
              ELSE IF x2 < -RespawnMargin * PX THEN (W + RespawnMargin) * PX
              ELSE x2
    IN [sf EXCEPT !.x = x3, !.y = y2, !.rotation = @ + sf.rotationSpeed]

\* The loop body of updateSnowflakes without the wrap at the side margins
updateSnowflake_nowrap(sf, k, deltaTime, windForce, seed, W, H) ==
    LET y1 == sf.y + sf.speed * deltaTime
        x1 == sf.x + (2 * sf.wind + windForce) * (PX \div 16)
        out == y1 > (H + RespawnMargin) * PX
        y2 == IF out
              THEN randomBetween(-SpawnTop * PX, -SpawnBottom * PX,
                                 Rnd(seed, 2 * k))
              ELSE y1
        x2 == IF out
              THEN randomBetween(0, W * PX, Rnd(seed, 2 * k + 1))
              ELSE x1
    IN [sf EXCEPT !.x = x2, !.y = y2, !.rotation = @ + sf.rotationSpeed]

\* The body of the loop of updateSnowflakes for one snowflake; k is its
\* position in the pool, W and H the viewport in px.
updateSnowflake(sf, k, deltaTime, windForce, seed, W, H) ==
    LET y1 == sf.y + sf.speed * deltaTime
        x1 == sf.x + (2 * sf.wind + windForce) * (PX \div 16)
        out == y1 > (H + RespawnMargin) * PX
        y2 == IF out
              THEN randomBetween(-SpawnTop * PX, -SpawnBottom * PX,
                                 Rnd(seed, 2 * k))
              ELSE y1
        x2 == IF out
              THEN randomBetween(0, W * PX, Rnd(seed, 2 * k + 1))
              ELSE x1
        x3 == IF x2 > (W + RespawnMargin) * PX THEN -RespawnMargin * PX
              ELSE IF x2 < -RespawnMargin * PX THEN (W + RespawnMargin) * PX
              ELSE x2
    IN [sf EXCEPT !.x = x3, !.y = y2, !.rotation = @ + sf.rotationSpeed]

\* updateSnowflakes(deltaTime); sin is Math.sin(Date.now() * 0.001)
updateSnowflakes(s, i, deltaTime, sin, seed) ==
    LET m == s.managers[i]
        windForce == sin * m.windStrength
    IN [s EXCEPT !.managers[i].snowflakes =
            [k \in 1 .. Len(m.snowflakes) |->
                updateSnowflake(m.snowflakes[k], k, deltaTime, windForce, seed,
                                s.innerWidth, s.innerHeight)]]

\* animate(currentTime) without the check of isActive
animate_unguarded(s, i, currentTime, sin, seed) ==
    LET deltaTime == currentTime - s.managers[i].lastUpdate
        s1 == IF deltaTime >= FRAME_TIME
              THEN [updateSnowflakes(s, i, deltaTime, sin, seed)
                       EXCEPT !.managers[i].lastUpdate = currentTime]
              ELSE s
        s2 == requestAnimationFrame(s1, i)
    IN [s2 EXCEPT !.managers[i].animationFrame = s1.nextHandle]

\* animate(currentTime) if it updated the pool on every frame
animate_everyframe(s, i, currentTime, sin, seed) ==
    IF ~s.managers[i].isActive
    THEN s
    ELSE LET deltaTime == currentTime - s.managers[i].lastUpdate
             s1 == [updateSnowflakes(s, i, deltaTime, sin, seed)
                       EXCEPT !.managers[i].lastUpdate = currentTime]
             s2 == requestAnimationFrame(s1, i)
         IN [s2 EXCEPT !.managers[i].animationFrame = s1.nextHandle]

\* animate(currentTime)
animate(s, i, currentTime, sin, seed) ==
    IF ~s.managers[i].isActive
    THEN s
    ELSE LET deltaTime == currentTime - s.managers[i].lastUpdate
             s1 == IF deltaTime >= FRAME_TIME
                   THEN [updateSnowflakes(s, i, deltaTime, sin, seed)
                            EXCEPT !.managers[i].lastUpdate = currentTime]
                   ELSE s
             s2 == requestAnimationFrame(s1, i)
         IN [s2 EXCEPT !.managers[i].animationFrame = s1.nextHandle]

\* startAnimation()
startAnimation(s, i) ==
    IF s.managers[i].animationFrame # 0
    THEN s
    ELSE animate([s EXCEPT !.managers[i].isActive = TRUE], i, 0, 0, 0)

\* addEventListeners(): the visibilitychange listener of manager i
addEventListeners(s, i) ==
    [s EXCEPT !.visListeners = Append(@, i)]

\* init() without the check of the container
init_unguarded(s, i, seed) ==
    addEventListeners(startAnimation(createSnowflakes(s, i, seed), i), i)

\* init()
init(s, i, seed) ==
    IF ~s.managers[i].container
    THEN s
    ELSE addEventListeners(startAnimation(createSnowflakes(s, i, seed), i), i)

\* new SnowflakeManager(): the new manager is the last of s.managers
SnowflakeManager_new(s, seed) ==
    LET s1 == [s EXCEPT !.managers = Append(@, SnowflakeManager_fields(s))]
    IN init(s1, Len(s1.managers), seed)

\* The mousemove handler of manager i (the function wrapped by
\* Utils.throttle in addEventListeners) for a pointer at clientX px:
\* distance = (clientX - centerX) / centerX, 1 = 4 units.
mouseHandler(s, i, clientX) ==
    LET distance == (4 * (2 * clientX - s.innerWidth)) \div s.innerWidth
    IN [s EXCEPT !.managers[i].windDirection = distance,
                 !.managers[i].windStrength =
                     2 * (IF distance < 0 THEN -distance ELSE distance) + 2]

\* 'mousemove' reaches the handlers of the managers that registered their
\* listeners (listeners k .. of the list)
RECURSIVE dispatchMouse(_, _, _)
dispatchMouse(s, k, clientX) ==
    IF k > Len(s.visListeners) THEN s
    ELSE dispatchMouse(IF s.visListeners[k] = 0 THEN s
                       ELSE mouseHandler(s, s.visListeners[k], clientX),
                       k + 1, clientX)

\* pause() that forgets the frame request instead of cancelling it
pause_nocancel(s, i) ==
    [s EXCEPT !.managers[i].isActive = FALSE,
              !.managers[i].animationFrame = 0]

\* pause()
pause(s, i) ==
    LET s1 == [s EXCEPT !.managers[i].isActive = FALSE]
    IN IF s1.managers[i].animationFrame # 0
       THEN [cancelAnimationFrame(s1, s1.managers[i].animationFrame)
                EXCEPT !.managers[i].animationFrame = 0]
       ELSE s1

\* resume() that restarts the loop whatever the state (as
\* ParticlesSystem.start does)
resume_unguarded(s, i) ==
    IF s.managers[i].container
    THEN animate([s EXCEPT !.managers[i].isActive = TRUE], i, 0, 0, 0)
    ELSE s

\* resume()
resume(s, i) ==
    IF ~s.managers[i].isActive /\ s.managers[i].container
    THEN startAnimation(s, i)
    ELSE s

\* destroy() that clears the pool and the container without pausing
destroy_nopause(s, i) ==
    LET s1 == [s EXCEPT !.managers[i].snowflakes = << >>]
    IN IF s1.managers[i].container
       THEN [s1 EXCEPT !.children = << >>]
       ELSE s1

\* destroy()
destroy(s, i) ==
    LET s1 == [pause(s, i) EXCEPT !.managers[i].snowflakes = << >>]
    IN IF s1.managers[i].container
       THEN [s1 EXCEPT !.children = << >>]
       ELSE s1

\* updateSettings({count}) whose slice keeps one snowflake too many
updateSettings_offbyone(s, i, count, seed) ==
    LET pool == s.managers[i].snowflakes
        currentCount == Len(pool)
    IN IF count > currentCount
       THEN createMany(s, i, seed, count - currentCount)
       ELSE IF count < currentCount
       THEN LET toRemove ==
                    { pool[k].id : k \in 1 .. (currentCount - count - 1) }
            IN [s EXCEPT
                 !.children = SelectSeq(@, LAMBDA c : c \notin toRemove),
                 !.managers[i].snowflakes =
                     SubSeq(pool, currentCount - count, currentCount)]
       ELSE s

\* updateSettings({count}) that removes the newest snowflakes
updateSettings_newest(s, i, count, seed) ==
    LET pool == s.managers[i].snowflakes
        currentCount == Len(pool)
    IN IF count > currentCount
       THEN createMany(s, i, seed, count - currentCount)
       ELSE IF count < currentCount
       THEN LET toRemove == { pool[k].id : k \in (count + 1) .. currentCount }
            IN [s EXCEPT
                 !.children = SelectSeq(@, LAMBDA c : c \notin toRemove),
                 !.managers[i].snowflakes = SubSeq(pool, 1, count)]
       ELSE s

\* updateSettings({count})
updateSettings(s, i, count, seed) ==
    LET pool == s.managers[i].snowflakes
        currentCount == Len(pool)
    IN IF count > currentCount
       THEN createMany(s, i, seed, count - currentCount)
       ELSE IF count < currentCount
       THEN LET toRemove == { pool[k].id : k \in 1 .. (currentCount - count) }
            IN [s EXCEPT
                 !.children = SelectSeq(@, LAMBDA c : c \notin toRemove),
                 !.managers[i].snowflakes =
                     SubSeq(pool, currentCount - count + 1, currentCount)]
       ELSE s

(***************************************************************************)
(* ParticlesSystem                                                         *)
(***************************************************************************)
\* constructor, before init()
ParticlesSystem_fields(s) ==
    [ canvas |-> s.domCanvas, ctx |-> FALSE, particles |-> << >>,
      isActive |-> FALSE, animationFrame |-> 0, width |-> 0, height |-> 0,
      listening |-> FALSE ]

\* resize()
ps_resize(s) ==
    IF ~s.ps.canvas
    THEN s
    ELSE [s EXCEPT !.ps.width = s.innerWidth, !.ps.height = s.innerHeight]

\* The particle pushed by createParticles from draws n .. n+6
newParticle(s, seed, n) ==
    [ x |-> (Rnd(seed, n) * s.ps.width * PX) \div RDen,
      y |-> (Rnd(seed, n + 1) * s.ps.height * PX) \div RDen,
      vx |-> ((2 * Rnd(seed, n + 2) - RDen) * PX) \div (4 * RDen),
      vy |-> ((2 * Rnd(seed, n + 3) - RDen) * PX) \div (4 * RDen),
      size |-> (Rnd(seed, n + 4) * 20) \div RDen + 10,
      opacity |-> (Rnd(seed, n + 5) * 500) \div RDen + 200,
      hue |-> (Rnd(seed, n + 6) * 60) \div RDen + 190 ]

\* createParticles()
createParticles(s, seed) ==
    LET particleCount ==
            Min(MaxParticles,
                (s.innerWidth * s.innerHeight) \div ParticleArea)
    IN [s EXCEPT !.ps.particles =
            [k \in 1 .. particleCount |-> newParticle(s, seed, 7 * (k - 1))]]

\* updateParticle(particle) if it clamped without negating the velocity
updateParticle_nobounce(p, w, h) ==
    [p EXCEPT !.x = Max(0, Min(w * PX, p.x + p.vx)),
              !.y = Max(0, Min(h * PX, p.y + p.vy))]

\* updateParticle(particle) on a canvas of w x h px
updateParticle(p, w, h) ==
    LET x1 == p.x + p.vx
        y1 == p.y + p.vy
        vx1 == IF x1 < 0 \/ x1 > w * PX THEN -p.vx ELSE p.vx
        vy1 == IF y1 < 0 \/ y1 > h * PX THEN -p.vy ELSE p.vy
    IN [p EXCEPT !.x = Max(0, Min(w * PX, x1)),
                 !.y = Max(0, Min(h * PX, y1)),
                 !.vx = vx1, !.vy = vy1]

\* animate()
ps_animate(s) ==
    IF ~s.ps.isActive \/ ~s.ps.ctx
    THEN s
    ELSE LET s1 == [s EXCEPT !.ps.particles =
                       [k \in 1 .. Len(@) |->
                           updateParticle(@[k], s.ps.width, s.ps.height)]]
             s2 == requestAnimationFrame(s1, 0)
         IN [s2 EXCEPT !.ps.animationFrame = s1.nextHandle]

\* start()
ps_start(s) ==
    IF ~s.ps.ctx
    THEN s
    ELSE ps_animate([s EXCEPT !.ps.isActive = TRUE])

\* stop()
ps_stop(s) ==
    LET s1 == [s EXCEPT !.ps.isActive = FALSE]
    IN IF s1.ps.animationFrame # 0
       THEN cancelAnimationFrame(s1, s1.ps.animationFrame)
       ELSE s1

\* canvas.getContext('2d'): a TypeError when the canvas is null
getContext(s) ==
    IF s.ps.canvas
    THEN [s EXCEPT !.ps.ctx = TRUE]
    ELSE [s EXCEPT !.thrown = TRUE]

\* init()
ps_init(s, seed) ==
    IF ~s.ps.canvas
    THEN s
    ELSE LET s1 == getContext(s)
         IN IF s1.thrown
            THEN s1
            ELSE [ps_start(createParticles(ps_resize(s1), seed))
                     EXCEPT !.ps.listening = TRUE]

\* new ParticlesSystem()
ParticlesSystem_new(s, seed) ==
    ps_init([s EXCEPT !.ps = ParticlesSystem_fields(s)], seed)

(***************************************************************************)
(* PerformanceMonitor: the flag and the frame loop; the fps bookkeeping of *)
(* monitor() only feeds the display and is left out.  Its frame callbacks  *)
(* have owner -2.                                                          *)
(***************************************************************************)
PerformanceMonitor_fields == [ isMonitoring |-> FALSE ]

\* monitor()
pm_monitor(s) ==
    IF ~s.pm.isMonitoring THEN s ELSE requestAnimationFrame(s, -2)

\* start()
pm_start(s) ==
    IF s.pm.isMonitoring
    THEN s
    ELSE pm_monitor([s EXCEPT !.pm.isMonitoring = TRUE])

(***************************************************************************)
(* ViewCounter.  updateCount() and fetchWithRetry() are async: `uc` holds  *)
(* where the call is (pc: "fetch" awaiting fetch(), "wait" awaiting the    *)
(* retry delay, "returned", "threw"), the loop index i, the value of the   *)
(* body that fetchWithRetry returned, and, as history, the number of       *)
(* requests issued and of ok responses received.  The frame callbacks of   *)
(* animateCount have owner -1.                                             *)
(***************************************************************************)
NoText == [ kind |-> "none", n |-> 0 ]

\* constructor
ViewCounter_fields(s) ==
    [ element |-> s.domCount, currentValue |-> 0, targetValue |-> 0,
      isAnimating |-> FALSE, retryCount |-> 0, text |-> NoText,
      anim |-> [ startTime |-> 0, startValue |-> 0, valueDifference |-> 0 ] ]

NoCall ==
    [ pc |-> "idle", i |-> 0, requests |-> 0, oks |-> 0, timeoutId |-> 0,
      result |-> 0, rejected |-> FALSE ]

\* showError()
showError(s) ==
    IF s.vc.element
    THEN [s EXCEPT !.vc.text = [ kind |-> "error", n |-> 0 ]]
    ELSE s

\* animateCount(): the closure `animate` captures startTime, startValue and
\* valueDifference
animateCount(s) ==
    IF s.vc.isAnimating \/ ~s.vc.element
    THEN s
    ELSE requestAnimationFrame(
             [s EXCEPT !.vc.isAnimating = TRUE,
                       !.vc.anim = [ startTime |-> s.clock,
                                     startValue |-> s.vc.currentValue,
                                     valueDifference |->
                                         s.vc.targetValue - s.vc.currentValue ]],
             -1)

\* The closure `animate` of animateCount called at currentTime, a whole
\* number of quarters of the duration after startTime:
\* easeOutQuart = 1 - (1 - progress)^4 = (256 - q^4) / 256 for q quarters left
countFrame(s, currentTime) ==
    LET elapsed == currentTime - s.vc.anim.startTime
        q == (COUNT_DURATION - Min(elapsed, COUNT_DURATION))
                 \div (COUNT_DURATION \div 4)
        value == s.vc.anim.startValue
                   + (s.vc.anim.valueDifference * (256 - q * q * q * q))
                        \div 256
        s1 == [s EXCEPT !.vc.currentValue = value,
                        !.vc.text = [ kind |-> "number", n |-> value ]]
    IN IF elapsed < COUNT_DURATION
       THEN requestAnimationFrame(s1, -1)
       ELSE [s1 EXCEPT !.vc.isAnimating = FALSE]

\* saveToCache(value)
saveToCache(s, value) ==
    [s EXCEPT !.storage = [ present |-> TRUE, value |-> value,
                            timestamp |-> s.clock ]]

\* loadFromCache() without the test of the age of the entry
loadFromCache_anyage(s) ==
    IF s.storage.present /\ s.storage.value # 0
    THEN animateCount([s EXCEPT !.vc.targetValue = s.storage.value])
    ELSE showError(s)

\* loadFromCache()
loadFromCache(s) ==
    IF /\ s.storage.present
       /\ s.storage.value # 0
       /\ s.clock - s.storage.timestamp < CACHE_MAX_AGE
    THEN animateCount([s EXCEPT !.vc.targetValue = s.storage.value])
    ELSE showError(s)

\* updateCount() after fetchWithRetry() returned `response`, the parsed
\* body: value is response.value, 0 when the body has no (truthy) value
updateCount_returned(s, value) ==
    LET s1 == [s EXCEPT !.uc.pc = "returned", !.uc.result = value]
    IN IF value # 0
       THEN saveToCache(animateCount([s1 EXCEPT !.vc.targetValue = value]),
                        value)
       ELSE showError(s1)

\* updateCount() after fetchWithRetry() threw: the catch block
updateCount_caught(s) ==
    loadFromCache([s EXCEPT !.uc.pc = "threw"])

\* fetchWithRetry(): one pass of the loop body up to `await fetch(...)`
fetchAttempt(s) ==
    LET s1 == setTimeout(s, "abort", TIMEOUT, s.uc.i)
    IN [s1 EXCEPT !.uc.pc = "fetch", !.uc.requests = @ + 1,
                  !.uc.timeoutId = s.nextTimer]

\* The loop step of fetchWithRetry with the test i <= RETRY_ATTEMPTS
loopNext_fourth(s) ==
    IF s.uc.i + 1 <= RETRY_ATTEMPTS
    THEN fetchAttempt([s EXCEPT !.uc.i = @ + 1])
    ELSE updateCount_caught([s EXCEPT !.uc.i = @ + 1])

\* fetchWithRetry(): i++ and the loop test; after the loop, the throw
loopNext(s) ==
    IF s.uc.i + 1 < RETRY_ATTEMPTS
    THEN fetchAttempt([s EXCEPT !.uc.i = @ + 1])
    ELSE updateCount_caught([s EXCEPT !.uc.i = @ + 1])

\* fetchWithRetry(): the catch block of the loop body
fetchCatch(s) ==
    IF s.uc.i < RETRY_ATTEMPTS - 1
    THEN [setTimeout(s, "retry", RETRY_DELAY * (s.uc.i + 1), s.uc.i)
             EXCEPT !.uc.pc = "wait"]
    ELSE loopNext(s)

\* fetch() resolved with a response: ok is response.ok, json whether
\* response.json() resolves, value the value of the parsed body
fetchResolved(s, ok, json, value) ==
    LET s1 == clearTimeout(s, s.uc.timeoutId)
    IN IF ok
       THEN LET s2 == [s1 EXCEPT !.uc.oks = @ + 1]
            IN IF json THEN updateCount_returned(s2, value)
               ELSE fetchCatch(s2)
       ELSE loopNext(s1)

\* fetch() rejected: a network error, or the abort of the controller
fetchRejected(s) == fetchCatch(s)

\* The timer callback () => controller.abort() of attempt i: it rejects the
\* fetch of that attempt if it is still awaited
abortTimeout(s, i) ==
    IF s.uc.pc = "fetch" /\ s.uc.i = i THEN fetchRejected(s) ELSE s

\* The retry delay of the catch block elapsed
retryTimeout(s) == loopNext(s)

\* fetchWithRetry()
fetchWithRetry(s) == fetchAttempt([s EXCEPT !.uc.i = 0])

\* updateCount(), up to its first await
updateCount(s) == fetchWithRetry([s EXCEPT !.uc = NoCall])

(***************************************************************************)
(* ThemeManager                                                            *)
(***************************************************************************)
LIGHT == "alpine"
DARK == "dark"

\* Utils.getFromStorage('theme', defaultValue)
getFromStorage(s, defaultValue) ==
    IF s.theme.stored = "none" THEN defaultValue ELSE s.theme.stored

\* Utils.setToStorage('theme', value): a failing setItem is caught
setToStorage(s, value) ==
    IF s.theme.writable THEN [s EXCEPT !.theme.stored = value] ELSE s

\* applyTheme(theme)
applyTheme(s, th) == [s EXCEPT !.theme.dataTheme = th]

\* setTheme(theme), up to the dispatch of 'themechange'
setTheme_quiet(s, th) ==
    setToStorage(applyTheme([s EXCEPT !.theme.currentTheme = th], th), th)

\* detectSystemPreference()
detectSystemPreference(s) ==
    IF getFromStorage(s, "none") = "none"
    THEN setTheme_quiet(s, IF s.theme.prefersDark THEN DARK ELSE LIGHT)
    ELSE s

\* new ThemeManager(): the constructor runs inside initializeModules, before
\* setupGlobalEvents, so the 'themechange' of its setTheme has no listener
ThemeManager_new(s) ==
    LET th == getFromStorage(s, LIGHT)
    IN detectSystemPreference(
           applyTheme([s EXCEPT !.theme.currentTheme = th], th))

(***************************************************************************)
(* LanguageManager.  The Map `elements` of scanElements is the list        *)
(* lang.elements (one generated id per element); a text "" is a missing or *)
(* empty attribute value.                                                  *)
(***************************************************************************)
LANGUAGES == { "ru", "en" }

\* applyLanguage(language)
applyLanguage(s, language) ==
    [s EXCEPT !.lang.elements =
        [k \in 1 .. Len(@) |->
            LET text == IF language = "en" THEN @[k].en ELSE @[k].ru
            IN IF text # "" THEN [@[k] EXCEPT !.text = text] ELSE @[k]]]

\* setLanguage(language) without the test of the language
setLanguage_unchecked(s, language) ==
    LET s1 == applyLanguage([s EXCEPT !.lang.currentLanguage = language],
                            language)
    IN [s1 EXCEPT !.lang.stored = language,
                  !.lang.selectorValue = IF s.lang.hasSelector THEN language
                                         ELSE @,
                  !.lang.events = @ + 1]

\* setLanguage(language); the application has no 'languagechange' listener
setLanguage(s, language) ==
    IF language \notin LANGUAGES THEN s
    ELSE LET s1 == applyLanguage([s EXCEPT !.lang.currentLanguage = language],
                                 language)
         IN [s1 EXCEPT !.lang.stored = language,
                       !.lang.selectorValue = IF s.lang.hasSelector
                                              THEN language ELSE @,
                       !.lang.events = @ + 1]

\* new LanguageManager(): the stored language, or RU; scanElements
\* generates an id per element; applyLanguage; setupEventListeners puts
\* the language into the selector
LanguageManager_new(s) ==
    LET language == IF s.lang.stored = "none" THEN "ru" ELSE s.lang.stored
        s1 == [s EXCEPT !.lang.currentLanguage = language,
                        !.nextId = @ + Len(s.lang.elements)]
    IN [applyLanguage(s1, language)
           EXCEPT !.lang.selectorValue = IF s.lang.hasSelector THEN language
                                         ELSE @]

(***************************************************************************)
(* AlpineBioApp: the handlers of the global events                         *)
(***************************************************************************)
\* modules.get(name) is defined
Has(s, name) == \E k \in 1 .. Len(s.modules) : s.modules[k] = name

\* handleResize() that arms the timer without destroying the manager
handleResize_nodestroy(s) ==
    IF s.modSnow # 0
    THEN [s EXCEPT !.resizeTimers = @ + 1]
    ELSE s

\* handleResize()
handleResize(s) ==
    IF s.modSnow # 0
    THEN [destroy(s, s.modSnow) EXCEPT !.resizeTimers = @ + 1]
    ELSE s

\* The function the application hands to Utils.debounce,
\* () => { this.handleResize(); }, with the timer of handleResize on the
\* timer list
resizeFunc(s) ==
    IF s.modSnow # 0
    THEN setTimeout(handleResize(s), "restart", RESIZE_RESTART_DELAY, 0)
    ELSE handleResize(s)

\* The function returned by Utils.debounce if it did not clear the pending
\* timer
executedFunction_noclear(s, args) ==
    [setTimeout(s, "later", DEBOUNCE_DELAY, args)
        EXCEPT !.timeout = s.nextTimer]

\* executedFunction(...args), the function returned by
\* Utils.debounce(func, DEBOUNCE_DELAY) for the application's resize handler
executedFunction(s, args) ==
    LET s1 == clearTimeout(s, s.timeout)
    IN [setTimeout(s1, "later", DEBOUNCE_DELAY, args)
           EXCEPT !.timeout = s1.nextTimer]

\* later(): clearTimeout(timeout); func(...args)
later(s, args) == resizeFunc(clearTimeout(s, s.timeout))

\* the setTimeout callback of handleResize:
\* this.modules.set('snowflakeManager', new SnowflakeManager())
resizeTimeout(s, seed) ==
    LET s1 == SnowflakeManager_new([s EXCEPT !.resizeTimers = @ - 1], seed)
    IN [s1 EXCEPT !.modSnow = Len(s1.managers),
                  !.modules = IF Has(s, "snowflakeManager") THEN @
                              ELSE Append(@, "snowflakeManager")]

\* handleSettingsChange({key: 'particles', value})
handleSettingsChange(s, value) ==
    IF ~Has(s, "particlesSystem") THEN s
    ELSE IF value THEN ps_start(s) ELSE ps_stop(s)

\* SettingsManager.updateSetting('particles', value), which dispatches
\* 'settingschange'
updateSetting(s, value) ==
    handleSettingsChange([s EXCEPT !.settingsParticles = value], value)

\* handleThemeChange({theme})
handleThemeChange(s) ==
    IF ~Has(s, "particlesSystem") THEN s
    ELSE [ps_stop(s) EXCEPT !.themeTimers = @ + 1]

\* the setTimeout callback of handleThemeChange
themeTimeout(s) ==
    ps_start([s EXCEPT !.themeTimers = @ - 1])

\* handleVisibilityChange()
handleVisibilityChange(s) ==
    LET s1 == IF s.modSnow # 0
              THEN IF s.hidden THEN pause(s, s.modSnow)
                   ELSE resume(s, s.modSnow)
              ELSE s
    IN IF ~Has(s1, "particlesSystem") THEN s1
       ELSE IF s1.hidden THEN ps_stop(s1) ELSE ps_start(s1)

\* One 'visibilitychange' listener: 0 is the application's, i > 0 the one
\* SnowflakeManager i registered in addEventListeners.
visibilityListener(s, l) ==
    IF l = 0 THEN handleVisibilityChange(s)
    ELSE IF s.hidden THEN pause(s, l) ELSE resume(s, l)

\* The document dispatches 'visibilitychange' to listeners k .. of the list
RECURSIVE dispatchVisibility(_, _)
dispatchVisibility(s, k) ==
    IF k > Len(s.visListeners) THEN s
    ELSE dispatchVisibility(visibilityListener(s, s.visListeners[k]), k + 1)

\* No ThemeManager yet, on a profile with no stored theme, writable
\* storage and a light system scheme.  currentTheme and dataTheme (the
\* data-theme attribute of the body) are LIGHT or DARK; stored is
\* localStorage['theme'] ("none": no item); writable says whether
\* localStorage.setItem succeeds; prefersDark is what the media query
\* (prefers-color-scheme: dark) matches; manual records that the user has
\* chosen a theme with the button (history).
NoThemeManager ==
    [ currentTheme |-> "none", dataTheme |-> "none", stored |-> "none",
      writable |-> TRUE, prefersDark |-> FALSE, manual |-> FALSE ]

\* No LanguageManager yet, on a page with no stored language, no
\* #lang-select and no element with data-en and data-ru.  stored is
\* localStorage['language'] ("none": no item); selectorValue is the value
\* of #lang-select if hasSelector; elements are the [data-en][data-ru]
\* elements with their two attributes and their textContent; events counts
\* the 'languagechange' events dispatched (history).
NoLanguageManager ==
    [ currentLanguage |-> "none", stored |-> "none", hasSelector |-> FALSE,
      selectorValue |-> "none", elements |-> << >>, events |-> 0 ]

\* The closure of setupKonamiCode before the first key: konamiCode = [].
\* As history, `pressed` holds every key code pressed since the last
\* trigger, `eggs` counts the calls of showEasterEgg and `before` is what
\* `pressed` was at the last one, its key included.
NoKeys ==
    [ konamiCode |-> << >>, pressed |-> << >>, eggs |-> 0, before |-> << >> ]

\* new InteractionManager() on a page whose #friends-list is hidden and
\* whose #friends-toggle has aria-expanded="false": isExpanded, the
\* style.display and style.opacity of the list (opacity in percent) and
\* the aria-expanded attribute of the toggle
InteractionManager_fields ==
    [ isExpanded |-> FALSE, display |-> "none", opacity |-> 100,
      ariaExpanded |-> FALSE ]

\* The closure of Utils.throttle before its first call: timeoutId
\* undefined (0), lastExecTime 0.  `execs` counts the executions of func,
\* `lastExec` is the time of the latest one and `minGap` the smallest time
\* between two executions so far (history; -1: fewer than two).
NoThrottle ==
    [ timeoutId |-> 0, lastExecTime |-> 0, execs |-> 0, lastExec |-> 0,
      minGap |-> -1 ]

(***************************************************************************)
(* AlpineBioApp.init(): initializeModules constructs the modules and puts  *)
(* them into the module map, setupGlobalEvents registers the application's *)
(* listeners, start() starts the PerformanceMonitor and the ViewCounter.   *)
(***************************************************************************)
Blank(vp, ds, dc, sp) ==
    [ innerWidth |-> vp[1], innerHeight |-> vp[2], hidden |-> FALSE,
      domSnow |-> ds, domCanvas |-> dc, children |-> << >>,
      managers |-> << >>, modSnow |-> 0,
      ps |-> [ canvas |-> FALSE, ctx |-> FALSE, particles |-> << >>,
               isActive |-> FALSE, animationFrame |-> 0, width |-> 0,
               height |-> 0, listening |-> FALSE ],
      frames |-> {}, nextHandle |-> 1, nextId |-> 1, now |-> 0,
      resizeTimers |-> 0, themeTimers |-> 0, debounced |-> FALSE,
      settingsParticles |-> sp, visListeners |-> << >>, thrown |-> FALSE,
      clock |-> 0, timers |-> {}, nextTimer |-> 1, timeout |-> 0,
      called |-> [ calls |-> 0, lastAt |-> 0, lastArg |-> 0, bursts |-> 0,
                   runs |-> 0, ranAfter |-> 0, ranArg |-> 0, ranWant |-> 0 ],
      modules |-> << >>, isInitialized |-> FALSE,
      pm |-> PerformanceMonitor_fields, domCount |-> TRUE,
      vc |-> [ element |-> FALSE, currentValue |-> 0, targetValue |-> 0,
               isAnimating |-> FALSE, retryCount |-> 0, text |-> NoText,
               anim |-> [ startTime |-> 0, startValue |-> 0,
                          valueDifference |-> 0 ] ],
      uc |-> NoCall,
      storage |-> [ present |-> FALSE, value |-> 0, timestamp |-> 0 ],
      readyState |-> "complete",
      initCalls |-> [ pc |-> << >>, queue |-> << >> ],
      theme |-> NoThemeManager, throttled |-> NoThrottle,
      lang |-> NoLanguageManager, konami |-> NoKeys,
      friends |-> InteractionManager_fields ]

\* The list moduleInitializers of initializeModules, by name
moduleInitializers ==
    << "performanceMonitor", "snowflakeManager", "particlesSystem",
       "viewCounter", "themeManager", "languageManager", "analyticsManager",
       "settingsManager", "interactionManager" >>

NoFailure == "none"

\* initializer(): new X() for the module `name`.  The managers of
\* analytics, settings and interaction hold no state of the model.
construct(s, name, seed) ==
    CASE name = "performanceMonitor" ->
            [s EXCEPT !.pm = PerformanceMonitor_fields]
      [] name = "snowflakeManager" -> SnowflakeManager_new(s, seed)
      [] name = "particlesSystem" -> ParticlesSystem_new(s, seed)
      [] name = "viewCounter" -> [s EXCEPT !.vc = ViewCounter_fields(s)]
      [] name = "themeManager" -> ThemeManager_new(s)
      [] name = "languageManager" -> LanguageManager_new(s)
      [] OTHER -> s

\* this.modules.set(name, module)
register(s, name) ==
    [s EXCEPT !.modules = IF Has(s, name) THEN @ ELSE Append(@, name),
              !.modSnow = IF name = "snowflakeManager" THEN Len(s.managers)
                          ELSE @]

\* The loop of initializeModules from entry k on, if it had no try/catch:
\* the exception of the failing constructor leaves the loop
RECURSIVE initializeFrom_nocatch(_, _, _, _)
initializeFrom_nocatch(s, k, seed, failing) ==
    IF k > Len(moduleInitializers) THEN s
    ELSE IF moduleInitializers[k] = failing THEN [s EXCEPT !.thrown = TRUE]
    ELSE initializeFrom_nocatch(
             register(construct(s, moduleInitializers[k], seed),
                      moduleInitializers[k]),
             k + 1, seed, failing)

\* The loop of initializeModules from entry k on.  `failing` names the
\* module whose constructor throws (NoFailure: none does); the catch block
\* logs the error and the loop goes on.
RECURSIVE initializeFrom(_, _, _, _)
initializeFrom(s, k, seed, failing) ==
    IF k > Len(moduleInitializers) THEN s
    ELSE initializeFrom(
             IF moduleInitializers[k] = failing THEN s
             ELSE register(construct(s, moduleInitializers[k], seed),
                           moduleInitializers[k]),
             k + 1, seed, failing)

\* initializeModules()
initializeModules(s, seed, failing) == initializeFrom(s, 1, seed, failing)

\* setupGlobalEvents(): the listeners of the application
setupGlobalEvents(s) ==
    [s EXCEPT !.visListeners = Append(@, 0)]

\* start()
start(s) ==
    LET s1 == IF Has(s, "performanceMonitor") THEN pm_start(s) ELSE s
    IN IF Has(s1, "viewCounter") THEN updateCount(s1) ELSE s1

\* AlpineBioApp.init(): an exception of the try block is caught and logged,
\* and isInitialized stays false
AlpineBioApp_init(s, seed, failing) ==
    IF s.isInitialized THEN s
    ELSE LET s1 == initializeModules(s, seed, failing)
         IN IF s1.thrown
            THEN [s1 EXCEPT !.thrown = FALSE]
            ELSE [start(setupGlobalEvents(s1)) EXCEPT !.isInitialized = TRUE]

\* The page once initializeModules() and setupGlobalEvents() have run with
\* no failure: the state of the snowflake and particle modules and of the
\* application's handlers, which start() does not touch
Page(vp, ds, dc, sp, seed) ==
    setupGlobalEvents(initializeModules(Blank(vp, ds, dc, sp), seed,
                                        NoFailure))

Is(s, op) ==
    /\ innerWidth = s.innerWidth
    /\ innerHeight = s.innerHeight
    /\ hidden = s.hidden
    /\ domSnow = s.domSnow
    /\ domCanvas = s.domCanvas
    /\ children = s.children
    /\ managers = s.managers
    /\ modSnow = s.modSnow
    /\ ps = s.ps
    /\ frames = s.frames
    /\ nextHandle = s.nextHandle
    /\ nextId = s.nextId
    /\ now = s.now
    /\ resizeTimers = s.resizeTimers
    /\ themeTimers = s.themeTimers
    /\ debounced = s.debounced
    /\ settingsParticles = s.settingsParticles
    /\ visListeners = s.visListeners
    /\ thrown = s.thrown
    /\ clock = s.clock
    /\ timers = s.timers
    /\ nextTimer = s.nextTimer
    /\ timeout = s.timeout
    /\ called = s.called
    /\ modules = s.modules
    /\ isInitialized = s.isInitialized
    /\ pm = s.pm
    /\ domCount = s.domCount
    /\ vc = s.vc
    /\ uc = s.uc
    /\ storage = s.storage
    /\ readyState = s.readyState
    /\ initCalls = s.initCalls
    /\ theme = s.theme
    /\ throttled = s.throttled
    /\ lang = s.lang
    /\ konami = s.konami
    /\ friends = s.friends
    /\ lastOp = op

Op(name, arg) == [op |-> name, arg |-> arg]

(***************************************************************************)
(* Spec: the page.  The events of the browser (visibility, resize, theme   *)
(* and settings changes, timers, animation frames) arrive in any order.    *)
(***************************************************************************)
Init ==
    /\ \E ds \in BOOLEAN, dc \in BOOLEAN, sp \in BOOLEAN :
          Is(Page(LifeViewport, ds, dc, sp, 0), Op("init", 0))
    /\ steps = 0

\* A step to state s, within the bounds of the model
Step(s) ==
    /\ s.nextHandle <= MaxHandle + 1
    /\ Len(s.managers) + s.resizeTimers <= MaxManagers
    /\ s.themeTimers <= MaxThemeTimers
    /\ Become(s, lastOp)
    /\ UNCHANGED steps

\* The document becomes hidden or visible and dispatches 'visibilitychange'
visibilityChange(s) == dispatchVisibility([s EXCEPT !.hidden = ~@], 1)

VisibilityChange == Step(visibilityChange(St))

\* A 'resize' that also moves every snowflake into the new width
windowResize_reposition(s, vp) ==
    [s EXCEPT !.innerWidth = vp[1], !.innerHeight = vp[2],
              !.debounced = TRUE,
              !.managers = [i \in 1 .. Len(@) |->
                  [@[i] EXCEPT !.snowflakes = [k \in 1 .. Len(@) |->
                      [@[k] EXCEPT !.x = Min(@, vp[1] * PX)]]]]]

\* The window takes the size vp and dispatches 'resize': the two listeners
\* are debounce wrappers, which only re-arm their 250 ms timers.  No
\* SnowflakeManager listens to 'resize'; updateSnowflakes reads
\* window.innerWidth and window.innerHeight when it runs.
windowResize(s, vp) ==
    [s EXCEPT !.innerWidth = vp[1], !.innerHeight = vp[2],
              !.debounced = TRUE]

\* The user gives the window another size
WindowResize ==
    \E vp \in Viewports :
        /\ ~hidden
        /\ vp # <<innerWidth, innerHeight>>
        /\ Step(windowResize(St, vp))

\* The two debounce timers, armed by the same event with the same delay,
\* fire one after the other in the order of registration: the
\* ParticlesSystem's (registered in its init), then the application's.
resizeDebounced(s) ==
    handleResize(IF s.ps.listening THEN ps_resize(s) ELSE s)

ResizeDebounced ==
    /\ debounced
    /\ Step(resizeDebounced([St EXCEPT !.debounced = FALSE]))

\* The 100 ms timer of handleResize fires
ResizeTimeout ==
    /\ resizeTimers > 0
    /\ \E seed \in LifeSeeds : Step(resizeTimeout(St, seed))

\* The user clicks the theme button: ThemeManager.setTheme dispatches
\* 'themechange'
ThemeChange ==
    /\ ~hidden
    /\ Step(handleThemeChange(St))

\* The 100 ms timer of handleThemeChange fires
ThemeTimeout ==
    /\ themeTimers > 0
    /\ Step(themeTimeout(St))

\* The user flips the particles checkbox of the settings panel
ParticlesToggle ==
    /\ ~hidden
    /\ Step(updateSetting(St, ~settingsParticles))

\* The browser runs the pending frame callback f of a SnowflakeManager at
\* time t; the browser runs no frame callbacks of a hidden document.
snowFrame(s, f, t, sin, seed) ==
    animate([s EXCEPT !.frames = @ \ {f}, !.now = t], f.owner, t, sin, seed)

SnowFrame ==
    \E f \in frames, dt \in LifeGaps, sin \in LifeSin, seed \in LifeSeeds :
        /\ f.owner > 0
        /\ ~hidden
        /\ Step(snowFrame(St, f, now + dt, sin, seed))

\* The browser runs the pending frame callback f of the ParticlesSystem
particlesFrame(s, f, t) ==
    ps_animate([s EXCEPT !.frames = @ \ {f}, !.now = t])

ParticlesFrame ==
    \E f \in frames, dt \in LifeGaps :
        /\ f.owner = 0
        /\ ~hidden
        /\ Step(particlesFrame(St, f, now + dt))

Next ==
    \/ VisibilityChange
    \/ WindowResize
    \/ ResizeDebounced
    \/ ResizeTimeout
    \/ ThemeChange
    \/ ThemeTimeout
    \/ ParticlesToggle
    \/ SnowFrame
    \/ ParticlesFrame

Spec == Init /\ [][Next]_vars

(***************************************************************************)
(* Properties of the page (Spec)                                           *)
(***************************************************************************)
ManagerIds == 1 .. Len(managers)

\* The pending frame callbacks of owner o in state s
FramesOf(s, o) == { f \in s.frames : f.owner = o }

\* C3: a SnowflakeManager has at most one frame callback pending; it has one
\* exactly while it is active, and that one is the request it remembers in
\* animationFrame (the request made by its last tick or by its last start).
C3_OneFramePending ==
    \A i \in ManagerIds :
        /\ Cardinality(FramesOf(St, i)) <= 1
        /\ managers[i].isActive <=> FramesOf(St, i) # {}
        /\ \A f \in FramesOf(St, i) : f.h = managers[i].animationFrame

\* C3 witness: a manager that has performed a tick update, was then paused
\* and resumed (its request is younger than the two of page start-up) and
\* has one frame pending.
C3_Witness ==
    \E i \in ManagerIds :
        /\ managers[i].lastUpdate > 0
        /\ managers[i].animationFrame > 3
        /\ Cardinality(FramesOf(St, i)) = 1

\* C4 (as claimed): the ParticlesSystem has at most one frame callback
\* pending.
C4_OneParticlesChain == Cardinality(FramesOf(St, 0)) <= 1

\* C5: from every reachable state and for every manager, pause() twice is
\* pause() once and resume() twice is resume() once (the whole state: the
\* isActive flag, the pending frame requests, the pool).
C5_Idempotent ==
    \A i \in ManagerIds :
        /\ pause(pause(St, i), i) = pause(St, i)
        /\ resume(resume(St, i), i) = resume(St, i)

\* C5 witness: the document was hidden and shown again before any frame ran;
\* both visibilitychange listeners called pause(), then both called resume(),
\* and the manager has the one frame request made by the first resume().
C5_Witness ==
    /\ ~hidden
    /\ now = 0
    /\ \E i \in ManagerIds :
          /\ managers[i].isActive
          /\ managers[i].animationFrame > 2
          /\ Cardinality(FramesOf(St, i)) = 1

\* C7: destroy() on any manager in any reachable state leaves its pool
\* empty, the container without children, the manager inactive and none of
\* its frame callbacks pending.
C7_DestroyPost ==
    \A i \in ManagerIds :
        LET d == destroy(St, i)
        IN /\ d.managers[i].snowflakes = << >>
           /\ d.children = << >>
           /\ ~d.managers[i].isActive
           /\ d.managers[i].animationFrame = 0
           /\ FramesOf(d, i) = {}

\* A manager on which destroy() has run: it has its container and an empty
\* pool (init() fills the pool and only destroy() empties it on the page).
TornDown(i) == managers[i].container /\ managers[i].snowflakes = << >>

\* C7 witness: handleResize has destroyed a manager that had performed a
\* tick update.
C7_Witness ==
    \E i \in ManagerIds :
        /\ TornDown(i)
        /\ managers[i].lastUpdate > 0
        /\ ~managers[i].isActive
        /\ FramesOf(St, i) = {}
        /\ children = << >>

\* C8 (as claimed): a manager that was torn down is never active again and
\* has no frame pending, and at most one manager is active.
C8_TornDownStaysDown ==
    /\ \A i \in ManagerIds :
          TornDown(i) => ~managers[i].isActive /\ FramesOf(St, i) = {}
    /\ Cardinality({ i \in ManagerIds : managers[i].isActive }) <= 1

\* C9 (as claimed): while the document is hidden (every step that hides it
\* runs the visibilitychange listeners) no SnowflakeManager and no
\* ParticlesSystem has an active frame loop (isActive: a frame callback
\* would update and request the next frame).
C9_HiddenMeansIdle ==
    hidden =>
        /\ \A i \in ManagerIds : ~managers[i].isActive
        /\ ~ps.isActive

\* C27 (as claimed): while the 'particles' setting is false the frame loop
\* of the ParticlesSystem is not running (isActive is false: no frame
\* callback would draw and request the next frame), whatever start-up,
\* visibility changes and theme changes have happened since.
C27_OffMeansStopped ==
    ~settingsParticles => ~ps.isActive

\* C10: without #snowflakes no manager ever has a snowflake, a listener, a
\* frame request or the active flag; without #particles-canvas the same for
\* the ParticlesSystem; and no exception is raised.
C10_MissingTarget ==
    /\ ~domSnow =>
          \A i \in ManagerIds :
              /\ managers[i].snowflakes = << >>
              /\ ~managers[i].isActive
              /\ managers[i].animationFrame = 0
              /\ FramesOf(St, i) = {}
              /\ \A k \in 1 .. Len(visListeners) : visListeners[k] # i
    /\ ~domCanvas =>
          /\ ps.particles = << >>
          /\ ~ps.isActive
          /\ ps.animationFrame = 0
          /\ FramesOf(St, 0) = {}
          /\ ~ps.listening
    /\ (~domSnow \/ ~domCanvas) => ~thrown

\* C10 witness: a page with neither target, on which a resize has destroyed
\* and re-created the manager and which was then hidden (pause(), stop()).
C10_Witness ==
    /\ ~domSnow
    /\ ~domCanvas
    /\ Len(managers) = 2
    /\ hidden

\* C14: a step that changes the viewport size (the 'resize' event itself)
\* changes no manager, so no snowflake's position and no pool, and removes
\* no element from the container; it only arms the debounce timer.
C14_ResizeKeepsPool ==
    [][ (innerWidth' # innerWidth \/ innerHeight' # innerHeight)
          => /\ managers' = managers
             /\ children' = children
             /\ modSnow' = modSnow
             /\ frames' = frames ]_vars

\* C14 witness: the window was made narrower; the pool is complete and a
\* snowflake created for the wider window is still where it was, to the
\* right of the viewport.
C14_Witness ==
    /\ debounced
    /\ innerWidth < LifeViewport[1]
    /\ modSnow # 0
    /\ Len(managers[modSnow].snowflakes) = SNOWFLAKE_COUNT
    /\ \E k \in 1 .. Len(managers[modSnow].snowflakes) :
          managers[modSnow].snowflakes[k].x > innerWidth * PX

(***************************************************************************)
(* SpecKin: the tick update.  One page with its SnowflakeManager, whose    *)
(* updateSnowflakes is called with any deltaTime and wind; the viewport    *)
(* keeps the size it has at construction.                                  *)
(***************************************************************************)
KinInit ==
    /\ \E vp \in Viewports, seed \in Seeds :
          Is(Page(vp, TRUE, FALSE, TRUE, seed), Op("init", 0))
    /\ steps = 0

\* A call counted in steps
Call(s, op) ==
    /\ steps < MaxSteps
    /\ Become(s, op)
    /\ steps' = steps + 1

\* The snowflakes of manager i that an update by deltaTime takes past the
\* bottom margin
PastBottom(i, deltaTime) ==
    { k \in 1 .. Len(managers[i].snowflakes) :
        managers[i].snowflakes[k].y
            + managers[i].snowflakes[k].speed * deltaTime
          > (innerHeight + RespawnMargin) * PX }

\* updateSnowflakes(deltaTime); lastOp records how many snowflakes it reset
KinTick ==
    \E dt \in DeltaTimes, sin \in SinValues, seed \in Seeds :
        Call(updateSnowflakes(St, modSnow, dt, sin, seed),
             Op("updateSnowflakes", Cardinality(PastBottom(modSnow, dt))))

KinNext == KinTick

SpecKin == KinInit /\ [][KinNext]_vars

\* C1: every snowflake of the pool has y in [-100, innerHeight + 50] px
C1_YInBounds ==
    \A i \in ManagerIds :
        \A k \in 1 .. Len(managers[i].snowflakes) :
            /\ managers[i].snowflakes[k].y >= -SpawnTop * PX
            /\ managers[i].snowflakes[k].y
                  <= (innerHeight + RespawnMargin) * PX

\* C1 witness: the last update took a snowflake past the bottom margin, and
\* another snowflake is below the top of the viewport
C1_Witness ==
    /\ lastOp.op = "updateSnowflakes"
    /\ lastOp.arg > 0
    /\ \E k \in 1 .. Len(managers[modSnow].snowflakes) :
          managers[modSnow].snowflakes[k].y > 0

\* The attributes of a snowflake that are chosen at creation
Fixed(sf) ==
    [ id |-> sf.id, symbol |-> sf.symbol, size |-> sf.size,
      opacity |-> sf.opacity, speed |-> sf.speed, wind |-> sf.wind,
      rotationSpeed |-> sf.rotationSpeed ]

\* C16: a tick update adds no pool entry and removes none, leaves the
\* elements of the container in place, and changes nothing of a snowflake
\* but x, y and rotation: glyph, size, opacity, fall speed, own wind,
\* rotation speed and identity stay as created, over any number of ticks.
C16_TickKeepsAttributes ==
    [][ lastOp'.op = "updateSnowflakes"
          => /\ children' = children
             /\ Len(managers') = Len(managers)
             /\ \A i \in ManagerIds :
                   /\ Len(managers'[i].snowflakes) = Len(managers[i].snowflakes)
                   /\ \A k \in 1 .. Len(managers[i].snowflakes) :
                         Fixed(managers'[i].snowflakes[k])
                             = Fixed(managers[i].snowflakes[k]) ]_vars

\* C16 witness: after several tick updates, the last of which moved a
\* snowflake from below the viewport back to the top, the pool is complete
C16_Witness ==
    /\ lastOp.op = "updateSnowflakes"
    /\ lastOp.arg > 0
    /\ steps >= 3
    /\ Len(managers[modSnow].snowflakes) = SNOWFLAKE_COUNT
    /\ Len(children) = SNOWFLAKE_COUNT

(***************************************************************************)
(* SpecWind: tick updates under wind and a changing window.  The pointer   *)
(* moves (the throttled handler sets windStrength), the window is resized  *)
(* (the pool stays as it is until the debounced handler runs, 250 ms after *)
(* the last 'resize') and updateSnowflakes is called in between.           *)
(***************************************************************************)
WindViewports == { LifeViewport, <<99, 100>> }
WindDeltaTimes == { 1667, 160000 }

\* Pointer positions: the left edge, the right edge and, where it is a
\* whole pixel, the centre of the window
MouseXs(W) == { 0, W } \cup (IF W % 2 = 0 THEN { W \div 2 } ELSE {})

\* The horizontal move of a snowflake in a tick: (wind + windForce) * 0.5
Shift(sf, sin, windStrength) ==
    (2 * sf.wind + sin * windStrength) * (PX \div 16)

\* The snowflakes of manager i that start a tick at innerWidth + 50 + 1 px
\* and that an update by deltaTime does not take past the bottom margin
RightEdge(i, deltaTime) ==
    { k \in 1 .. Len(managers[i].snowflakes) :
        /\ k \notin PastBottom(i, deltaTime)
        /\ managers[i].snowflakes[k].x
              = (innerWidth + RespawnMargin + 1) * PX }

WindInit ==
    /\ \E seed \in Seeds :
          Is(Page(LifeViewport, TRUE, FALSE, TRUE, seed), Op("init", 0))
    /\ steps = 0

\* updateSnowflakes(deltaTime); lastOp records the inputs, the snowflakes
\* the update takes past the bottom and those that start on the claim's x
WindTick ==
    \E dt \in WindDeltaTimes, sin \in SinValues, seed \in LifeSeeds :
        Call(updateSnowflakes(St, modSnow, dt, sin, seed),
             Op("tick", [ dt |-> dt, sin |-> sin,
                          past |-> PastBottom(modSnow, dt),
                          edge |-> RightEdge(modSnow, dt) ]))

WindMouse ==
    \E clientX \in MouseXs(innerWidth) :
        Call(dispatchMouse(St, 1, clientX), Op("mousemove", clientX))

WindResize ==
    \E vp \in WindViewports :
        /\ vp # <<innerWidth, innerHeight>>
        /\ Call(windowResize(St, vp), Op("resize", vp[1]))

WindNext ==
    \/ WindTick
    \/ WindMouse
    \/ WindResize

SpecWind == WindInit /\ [][WindNext]_vars

\* C17 (as claimed): a snowflake that starts a tick update at
\* x = innerWidth + 50 + 1 and is not respawned ends it at x = -50, whatever
\* its wind and the wind force; and its wind is not reversed.
C17_WrapFromEdge ==
    [][ lastOp'.op = "tick"
          => \A k \in lastOp'.arg.edge :
                /\ managers'[modSnow].snowflakes[k].x = -RespawnMargin * PX
                /\ managers'[modSnow].snowflakes[k].wind
                      = managers[modSnow].snowflakes[k].wind ]_vars

\* C17 (amended): the wrap test is applied to x after the move of the
\* tick.  A snowflake that is not respawned and whose x after the move is
\* beyond innerWidth + 50 ends the update at -50, one whose x after the move
\* is below -50 ends it at innerWidth + 50, any other keeps the x it moved
\* to; so a snowflake that starts at innerWidth + 50 + 1 ends at -50 exactly
\* when its move (wind + windForce) * 0.5 is greater than -1 px.  The wind
\* of a snowflake is never reversed.
C17_WrapAfterMove ==
    [][ lastOp'.op = "tick"
          => \A k \in 1 .. Len(managers[modSnow].snowflakes) :
                LET sf == managers[modSnow].snowflakes[k]
                    nf == managers'[modSnow].snowflakes[k]
                    x1 == sf.x + Shift(sf, lastOp'.arg.sin,
                                       managers[modSnow].windStrength)
                    right == (innerWidth + RespawnMargin) * PX
                    left == -RespawnMargin * PX
                IN /\ nf.wind = sf.wind
                   /\ k \notin lastOp'.arg.past =>
                         /\ x1 > right => nf.x = left
                         /\ x1 < left => nf.x = right
                         /\ (x1 >= left /\ x1 <= right) => nf.x = x1
                   /\ k \in lastOp'.arg.edge =>
                         (nf.x = left <=> x1 - sf.x > -PX) ]_vars

\* C17 witness: after the window was made narrower and the pointer had
\* raised the wind strength, a tick update found a snowflake at
\* innerWidth + 50 + 1 and wrapped it to -50.
C17_Witness ==
    /\ lastOp.op = "tick"
    /\ managers[modSnow].windStrength > 4
    /\ \E k \in lastOp.arg.edge :
          managers[modSnow].snowflakes[k].x = -RespawnMargin * PX

\* C18: a snowflake that a tick update finds below innerHeight + 50 ends
\* that update with y in [-100, -10] and x in [0, innerWidth] (the wrap test
\* that follows leaves it there), as the same pool entry with the same
\* element; the pool and the container keep their size.
C18_Respawn ==
    [][ lastOp'.op = "tick"
          => /\ children' = children
             /\ Len(managers'[modSnow].snowflakes)
                   = Len(managers[modSnow].snowflakes)
             /\ \A k \in lastOp'.arg.past :
                   LET nf == managers'[modSnow].snowflakes[k]
                   IN /\ nf.y >= -SpawnTop * PX
                      /\ nf.y <= -SpawnBottom * PX
                      /\ nf.x >= 0
                      /\ nf.x <= innerWidth' * PX
                      /\ Fixed(nf) = Fixed(managers[modSnow].snowflakes[k])
       ]_vars

\* C18 witness: a tick update in the narrowed window respawned several
\* snowflakes, one of them to the right half of the window
C18_Witness ==
    /\ lastOp.op = "tick"
    /\ innerWidth < LifeViewport[1]
    /\ Cardinality(lastOp.arg.past) > 1
    /\ \E k \in lastOp.arg.past :
          2 * managers[modSnow].snowflakes[k].x >= innerWidth * PX

\* C22: in a tick update one wind force F = sin * windStrength serves the
\* whole pool: every snowflake's rotation grows by its rotationSpeed, its y
\* by speed * (deltaTime / 16) and its x by (wind + F) * 0.5, and the tests
\* for the respawn and the wrap are made on the moved y and x: a snowflake
\* whose moved y is not past the bottom margin keeps the moved y, and keeps
\* the moved x unless that is past a side margin.
C22_SameWindForce ==
    [][ lastOp'.op = "tick"
          => LET F == lastOp'.arg.sin * managers[modSnow].windStrength
             IN \A k \in 1 .. Len(managers[modSnow].snowflakes) :
                   LET sf == managers[modSnow].snowflakes[k]
                       nf == managers'[modSnow].snowflakes[k]
                       y1 == sf.y + sf.speed * lastOp'.arg.dt
                       x1 == sf.x + (2 * sf.wind + F) * (PX \div 16)
                       right == (innerWidth + RespawnMargin) * PX
                       left == -RespawnMargin * PX
                   IN /\ nf.rotation = sf.rotation + sf.rotationSpeed
                      /\ IF y1 > (innerHeight + RespawnMargin) * PX
                         THEN nf.y <= -SpawnBottom * PX
                         ELSE /\ nf.y = y1
                              /\ nf.x = IF x1 > right THEN left
                                        ELSE IF x1 < left THEN right
                                        ELSE x1 ]_vars

\* C22 witness: after the pointer raised the wind strength, a one-frame
\* tick update moved snowflakes that differ in their own wind and in their
\* speed, none of them respawned
C22_Witness ==
    /\ lastOp.op = "tick"
    /\ lastOp.arg.dt = FRAME_TIME
    /\ managers[modSnow].windStrength > 4
    /\ \E j, k \in 1 .. Len(managers[modSnow].snowflakes) :
          /\ j \notin lastOp.arg.past
          /\ k \notin lastOp.arg.past
          /\ managers[modSnow].snowflakes[j].wind
                # managers[modSnow].snowflakes[k].wind
          /\ managers[modSnow].snowflakes[j].speed
                # managers[modSnow].snowflakes[k].speed

\* Every snowflake of the pool ms has x in [-50, W + 50] px
XInBounds(ms, W) ==
    \A i \in 1 .. Len(ms) :
        \A k \in 1 .. Len(ms[i].snowflakes) :
            /\ ms[i].snowflakes[k].x >= -RespawnMargin * PX
            /\ ms[i].snowflakes[k].x <= (W + RespawnMargin) * PX

\* C26: after every tick update each snowflake's x is in
\* [-50, innerWidth + 50] px, under every wind strength the pointer sets;
\* the pool starts inside this range, and no step that leaves the width of
\* the viewport as it is takes a snowflake out of it.
C26_XInBounds ==
    /\ XInBounds(managers, innerWidth)
    /\ [][ /\ lastOp'.op = "tick" => XInBounds(managers', innerWidth')
           /\ (innerWidth' = innerWidth /\ XInBounds(managers, innerWidth))
                 => XInBounds(managers', innerWidth') ]_vars

\* C26 witness: under the greatest wind strength the pointer can set (2.5)
\* a tick update put a snowflake on the left margin
C26_Witness ==
    /\ lastOp.op = "tick"
    /\ managers[modSnow].windStrength = 10
    /\ \E k \in 1 .. Len(managers[modSnow].snowflakes) :
          /\ k \notin lastOp.arg.past
          /\ managers[modSnow].snowflakes[k].x = -RespawnMargin * PX

(***************************************************************************)
(* SpecField: one SnowflakeManager driven through its methods in any       *)
(* order: pause, resume, destroy, updateSettings, animate (called with a   *)
(* time stamp, as a frame callback or from outside).                       *)
(***************************************************************************)
Counts == (0 .. MaxCount) \cup { SNOWFLAKE_COUNT, SNOWFLAKE_COUNT + 1 }

FieldInit ==
    /\ \E ds \in BOOLEAN, seed \in Seeds :
          Is(Page(LifeViewport, ds, FALSE, TRUE, seed), Op("init", 0))
    /\ steps = 0

FieldPause == Call(pause(St, modSnow), Op("pause", 0))

FieldResume == Call(resume(St, modSnow), Op("resume", 0))

FieldDestroy == Call(destroy(St, modSnow), Op("destroy", 0))

FieldUpdateSettings ==
    \E count \in Counts, seed \in LifeSeeds :
        Call(updateSettings(St, modSnow, count, seed),
             Op("updateSettings", count))

\* animate(t) is called from outside
FieldAnimate ==
    \E dt \in FieldGaps, sin \in LifeSin, seed \in LifeSeeds :
        Call(animate([St EXCEPT !.now = now + dt], modSnow, now + dt, sin,
                     seed),
             Op("animate", 0))

\* a pending frame callback runs
FieldFrame ==
    \E f \in frames, dt \in FieldGaps, sin \in LifeSin, seed \in LifeSeeds :
        Call(snowFrame(St, f, now + dt, sin, seed), Op("frame", f.h))

FieldNext ==
    \/ FieldPause
    \/ FieldResume
    \/ FieldDestroy
    \/ FieldUpdateSettings
    \/ FieldAnimate
    \/ FieldFrame

SpecField == FieldInit /\ [][FieldNext]_vars

\* C2: a manager with its container holds SNOWFLAKE_COUNT snowflakes right
\* after construction and exactly m after updateSettings({count: m})
C2_PoolSize ==
    managers[modSnow].container =>
        /\ lastOp.op = "init" =>
              Len(managers[modSnow].snowflakes) = SNOWFLAKE_COUNT
        /\ lastOp.op = "updateSettings" =>
              Len(managers[modSnow].snowflakes) = lastOp.arg

\* C2 witness: the pool was shrunk or emptied and then grown past the
\* configured count
C2_Witness ==
    /\ managers[modSnow].container
    /\ lastOp = Op("updateSettings", SNOWFLAKE_COUNT + 1)
    /\ steps >= 2
    /\ managers[modSnow].snowflakes[1].id > SNOWFLAKE_COUNT

\* C6: a tick (animate as a frame callback or called from outside) that
\* reaches a manager that is not active changes no manager, so no snowflake
\* and no pool, leaves the container as it is and requests no frame.
C6_PausedTickNoop ==
    [][ (lastOp'.op \in {"animate", "frame"} /\ ~managers[modSnow].isActive)
          => /\ managers' = managers
             /\ children' = children
             /\ nextHandle' = nextHandle
             /\ frames' \subseteq frames ]_vars

\* C6 witness: animate was called on a manager that had performed a tick
\* update, holds snowflakes and is paused
C6_Witness ==
    /\ lastOp.op = "animate"
    /\ ~managers[modSnow].isActive
    /\ managers[modSnow].lastUpdate > 0
    /\ managers[modSnow].snowflakes # << >>
    /\ \E k \in 1 .. Len(managers[modSnow].snowflakes) :
          managers[modSnow].snowflakes[k].rotation # 0

\* C15: updateSettings({count: n}) on a manager with its container.  With n
\* below the pool size it removes the first (size - n) snowflakes in pool
\* insertion order and their elements, and keeps the others as they are;
\* with n above it, it appends n - size snowflakes and elements and changes
\* no existing one; with n equal it changes nothing.  Nothing else of the
\* manager changes.
C15_SettingsCount ==
    [][ (lastOp'.op = "updateSettings" /\ managers[modSnow].container)
          => LET old == managers[modSnow].snowflakes
                 new == managers'[modSnow].snowflakes
                 cur == Len(old)
                 n == lastOp'.arg
                 gone == { old[k].id : k \in 1 .. (cur - n) }
             IN /\ managers'[modSnow]
                      = [managers[modSnow] EXCEPT !.snowflakes = new]
                /\ n < cur =>
                      /\ new = SubSeq(old, cur - n + 1, cur)
                      /\ children'
                            = SelectSeq(children, LAMBDA c : c \notin gone)
                      /\ Len(children') = Len(children) - (cur - n)
                /\ n > cur =>
                      /\ Len(new) = n
                      /\ SubSeq(new, 1, cur) = old
                      /\ Len(children') = Len(children) + (n - cur)
                      /\ SubSeq(children', 1, Len(children)) = children
                /\ n = cur =>
                      /\ new = old
                      /\ children' = children ]_vars

\* C15 witness: a pool of SNOWFLAKE_COUNT snowflakes that had been updated
\* by a tick was cut down to MaxCount; the newest MaxCount are left
C15_Witness ==
    /\ lastOp = Op("updateSettings", MaxCount)
    /\ managers[modSnow].lastUpdate > 0
    /\ Len(managers[modSnow].snowflakes) = MaxCount
    /\ managers[modSnow].snowflakes[MaxCount].id = SNOWFLAKE_COUNT
    /\ Len(children) = MaxCount

(***************************************************************************)
(* SpecResize: resizing in time.  'resize' events reach the debounced      *)
(* handler of the application, its timer runs handleResize() 250 ms after  *)
(* the last event, and the timer of handleResize constructs the new        *)
(* SnowflakeManager 100 ms later; the document may be hidden and shown in  *)
(* between.  Time advances up to the next timer that is due; a timer that  *)
(* is due runs before any event of the same instant.  The page has no      *)
(* canvas, so the application's handler is the only 'resize' listener.     *)
(***************************************************************************)
RzGaps == { 100 }

NoDue == \A tm \in timers : tm.due > clock

\* The timers that are due, the earliest first
DueFirst ==
    { tm \in timers :
        /\ tm.due <= clock
        /\ \A o \in timers : o.due > tm.due \/ (o.due = tm.due /\ o.id >= tm.id) }

RzInit ==
    /\ \E ds \in BOOLEAN :
          Is(Page(LifeViewport, ds, FALSE, TRUE, 0), Op("init", 0))
    /\ steps = 0

\* The window is resized: the event is the argument of the debounced
\* handler; `called` notes the call and whether it starts a burst (it comes
\* DEBOUNCE_DELAY or more after the previous call)
RzResize ==
    \E vp \in Viewports :
        /\ vp # <<innerWidth, innerHeight>>
        /\ NoDue
        /\ LET n == called.calls + 1
               s1 == executedFunction(windowResize(St, vp), n)
           IN Call([s1 EXCEPT !.called =
                       [@ EXCEPT !.calls = n, !.lastAt = clock, !.lastArg = n,
                                 !.bursts =
                                     IF called.calls = 0
                                        \/ clock - called.lastAt >= DEBOUNCE_DELAY
                                     THEN @ + 1 ELSE @]],
                   Op("resize", n))

RzVisibility ==
    /\ NoDue
    /\ Call(visibilityChange(St), Op("visibilitychange", 0))

\* Time passes, by a gap or up to the next timer
RzAdvance ==
    /\ timers # {}
    /\ NoDue
    /\ \E d \in RzGaps \cup { tm.due - clock : tm \in timers } :
          /\ \A tm \in timers : clock + d <= tm.due
          /\ Become([St EXCEPT !.clock = @ + d], Op("advance", d))
          /\ UNCHANGED steps

\* The callback of the timer tm runs
timerFires(s, tm, seed) ==
    LET s0 == [s EXCEPT !.timers = @ \ {tm}]
    IN CASE tm.kind = "later" ->
               [later(s0, tm.args) EXCEPT
                   !.debounced = FALSE,
                   !.called = [@ EXCEPT !.runs = @ + 1,
                                        !.ranAfter = s.clock - s.called.lastAt,
                                        !.ranArg = tm.args,
                                        !.ranWant = s.called.lastArg]]
         [] tm.kind = "restart" -> resizeTimeout(s0, seed)
         [] tm.kind = "abort" -> abortTimeout(s0, tm.args)
         [] tm.kind = "retry" -> retryTimeout(s0)
         [] OTHER -> s0

RzTimer ==
    \E tm \in DueFirst, seed \in LifeSeeds :
        /\ Become(timerFires(St, tm, seed), Op(tm.kind, tm.args))
        /\ UNCHANGED steps

RzNext ==
    \/ RzResize
    \/ RzVisibility
    \/ RzAdvance
    \/ RzTimer

\* A step that records the run of a due timer: within RzNext these are the
\* steps of RzTimer, and one is possible exactly when a timer is due
RzTimerDue == \E tm \in DueFirst : lastOp' = Op(tm.kind, tm.args)

\* Time does not stop and a timer that is due runs
SpecResize ==
    RzInit /\ [][RzNext]_vars /\ WF_vars(RzAdvance) /\ WF_lastOp(RzTimerDue)

\* C12: the debounced resize handler.  Every run of the wrapped function
\* comes exactly DEBOUNCE_DELAY after the latest call and with that call's
\* argument; a burst (calls less than DEBOUNCE_DELAY apart) that is going
\* on has not run it, a burst that is over has run it exactly once; and
\* each run is one handleResize() of the application.
C12_Debounce ==
    /\ called.runs > 0 =>
          /\ called.ranAfter = DEBOUNCE_DELAY
          /\ called.ranArg = called.ranWant
    /\ called.calls = 0 => called.runs = 0
    /\ called.calls > 0 =>
          /\ clock - called.lastAt < DEBOUNCE_DELAY =>
                called.runs = called.bursts - 1
          /\ clock - called.lastAt > DEBOUNCE_DELAY =>
                called.runs = called.bursts
          /\ called.runs \in { called.bursts - 1, called.bursts }
    /\ modSnow # 0 => called.runs = resizeTimers + Len(managers) - 1

\* C12 witness: a burst of three resize events was followed by one run, and
\* a later event has started the next burst
C12_Witness ==
    /\ called.calls = 4
    /\ called.bursts = 2
    /\ called.runs = 1
    /\ called.ranArg = 3

\* One manager, the one of the module map, holds a full pool whose elements
\* are the children of the container; every other manager's pool is empty
Settled ==
    /\ resizeTimers = 0
    /\ modSnow # 0
    /\ Len(managers[modSnow].snowflakes) = SNOWFLAKE_COUNT
    /\ \A i \in ManagerIds :
          i # modSnow => managers[i].snowflakes = << >>
    /\ children = [k \in 1 .. SNOWFLAKE_COUNT |->
                      managers[modSnow].snowflakes[k].id]

\* C13: on a page with #snowflakes, the debounced handleResize() leaves the
\* current manager without pool, elements, flag and frame and arms one
\* timer; the timer puts a new manager into the module map, active, with
\* one frame requested and a pool of SNOWFLAKE_COUNT new snowflakes that are
\* the only children of the container; and once a resize is under way the
\* page comes to a state with exactly one manager holding a full pool.
C13_ResizeRebuilds ==
    /\ [][ (domSnow /\ lastOp'.op = "later") =>
               /\ modSnow' = modSnow
               /\ managers'[modSnow].snowflakes = << >>
               /\ ~managers'[modSnow].isActive
               /\ managers'[modSnow].animationFrame = 0
               /\ { f \in frames' : f.owner = modSnow } = {}
               /\ children' = << >>
               /\ resizeTimers' = resizeTimers + 1 ]_vars
    /\ [][ (domSnow /\ lastOp'.op = "restart") =>
               /\ Len(managers') = Len(managers) + 1
               /\ modSnow' = Len(managers')
               /\ managers'[modSnow'].isActive
               /\ Cardinality({ f \in frames' : f.owner = modSnow' }) = 1
               /\ Len(managers'[modSnow'].snowflakes) = SNOWFLAKE_COUNT
               /\ children' = [k \in 1 .. SNOWFLAKE_COUNT |->
                                  managers'[modSnow'].snowflakes[k].id]
               /\ \A k \in 1 .. SNOWFLAKE_COUNT :
                     managers'[modSnow'].snowflakes[k].id >= nextId ]_vars
    /\ ((domSnow /\ timers # {}) ~> (timers = {} /\ Settled))

\* C13 witness: two resizes, each followed by its teardown and its restart,
\* have left the third manager with the full pool
C13_Witness ==
    /\ Len(managers) = 3
    /\ timers = {}
    /\ Settled
    /\ managers[modSnow].isActive

(***************************************************************************)
(* SpecBoot: start-up with a failing module.  AlpineBioApp.init() runs on  *)
(* a page where the constructor of one module of the list (or of none)     *)
(* throws; then the events of the page arrive in any order, up to MaxSteps *)
(* of them.  The request of the ViewCounter stays in flight (its course is *)
(* the subject of SpecView).                                               *)
(***************************************************************************)
ModuleNames == { moduleInitializers[k] : k \in 1 .. Len(moduleInitializers) }

BootInit ==
    /\ \E failing \in ModuleNames \cup { NoFailure } :
          Is(AlpineBioApp_init(Blank(LifeViewport, TRUE, TRUE, TRUE), 0,
                               failing),
             Op("init", 0))
    /\ steps = 0

BootVisibility == Call(visibilityChange(St), Op("visibilitychange", 0))

BootResize ==
    \E vp \in Viewports :
        /\ vp # <<innerWidth, innerHeight>>
        /\ Call(windowResize(St, vp), Op("resize", 0))

BootDebounced ==
    /\ debounced
    /\ Call(resizeDebounced([St EXCEPT !.debounced = FALSE]),
            Op("handleResize", 0))

BootRestart ==
    /\ resizeTimers > 0
    /\ Call(resizeTimeout(St, 0), Op("restart", 0))

\* The theme button: its listener exists if the ThemeManager was constructed
BootTheme ==
    /\ Has(St, "themeManager")
    /\ Call(handleThemeChange(St), Op("themechange", 0))

BootThemeTimeout ==
    /\ themeTimers > 0
    /\ Call(themeTimeout(St), Op("themeTimeout", 0))

\* The particles checkbox: its listener exists if the SettingsManager was
\* constructed
BootToggle ==
    /\ Has(St, "settingsManager")
    /\ Call(updateSetting(St, ~settingsParticles), Op("settingschange", 0))

\* A pending frame callback runs: of a SnowflakeManager, of the
\* ParticlesSystem or of the PerformanceMonitor
BootFrame ==
    \E f \in frames, dt \in LifeGaps, sin \in LifeSin :
        /\ ~hidden
        /\ f.owner >= -2
        /\ f.owner # -1
        /\ Call(IF f.owner > 0 THEN snowFrame(St, f, now + dt, sin, 0)
                ELSE IF f.owner = 0 THEN particlesFrame(St, f, now + dt)
                ELSE pm_monitor([St EXCEPT !.frames = @ \ {f},
                                           !.now = now + dt]),
                Op("frame", f.owner))

BootNext ==
    \/ BootVisibility
    \/ BootResize
    \/ BootDebounced
    \/ BootRestart
    \/ BootTheme
    \/ BootThemeTimeout
    \/ BootToggle
    \/ BootFrame

SpecBoot == BootInit /\ [][BootNext]_vars

\* C11: whichever constructor throws, init() completes (isInitialized) and
\* the module map holds the other modules of the list in the order of the
\* list; each of them was constructed and start() started the
\* PerformanceMonitor and the ViewCounter's request if they are there; the
\* module that failed is absent and stays absent, and no handler of a later
\* event raises.
C11_FailingModule ==
    /\ isInitialized
    /\ ~thrown
    /\ \E failing \in ModuleNames \cup { NoFailure } :
          modules = SelectSeq(moduleInitializers, LAMBDA n : n # failing)
    /\ Has(St, "snowflakeManager") <=> modSnow # 0
    /\ Has(St, "snowflakeManager") <=> managers # << >>
    /\ Has(St, "particlesSystem") <=> ps.ctx
    /\ ~Has(St, "particlesSystem") =>
          ~ps.isActive /\ FramesOf(St, 0) = {} /\ themeTimers = 0
    /\ Has(St, "performanceMonitor") <=> pm.isMonitoring
    /\ Has(St, "performanceMonitor") <=> FramesOf(St, -2) # {}
    /\ Has(St, "viewCounter") <=> vc.element
    /\ Has(St, "viewCounter") <=> uc.requests = 1

\* C11 witness: the ParticlesSystem failed to construct; the page has since
\* handled a change of the particles setting, a theme change and a
\* visibility change
C11_Witness ==
    /\ Len(modules) = Len(moduleInitializers) - 1
    /\ ~Has(St, "particlesSystem")
    /\ ~settingsParticles
    /\ hidden
    /\ steps >= 3

(***************************************************************************)
(* SpecView: the ViewCounter in time.  start() has called updateCount();   *)
(* each request gets a response (ok with a body that parses to a value,    *)
(* ok with a body that does not parse, not ok), is rejected by the         *)
(* network, or stays unanswered until its abort timer runs.  The element   *)
(* #view-count may be missing; localStorage holds no entry or one that     *)
(* saveToCache wrote earlier.  The frames of the count animation come a    *)
(* quarter of its duration or the whole of it apart.  A timer runs at its  *)
(* due time, before any event of the same instant.                         *)
(***************************************************************************)
ViewStart == CACHE_MAX_AGE

\* Time from a request to its response or rejection, ms
ViewLatencies == { 100 }

\* response.value of a parsed body; 0: the body has no (truthy) value
ViewValues == { 0, 5 }

\* Age of the cache entry at ViewStart, ms
CacheAges ==
    { 1000, CACHE_MAX_AGE - 301, CACHE_MAX_AGE - 300, CACHE_MAX_AGE }

ViewCaches ==
    { [ present |-> FALSE, value |-> 0, timestamp |-> 0 ] }
        \cup { [ present |-> TRUE, value |-> 7, timestamp |-> ViewStart - age ] :
                 age \in CacheAges }

ViewInit ==
    /\ \E dcount \in BOOLEAN, cache \in ViewCaches :
          Is(AlpineBioApp_init(
                 [Blank(LifeViewport, FALSE, FALSE, TRUE)
                     EXCEPT !.domCount = dcount, !.storage = cache,
                            !.clock = ViewStart],
                 0, NoFailure),
             Op("init", 0))
    /\ steps = 0

\* No timer is due up to time t
NoneDueBy(t) == \A tm \in timers : tm.due > t

\* The state at time t
At(t) == [St EXCEPT !.clock = t]

\* fetch() resolves with a response
ViewResponse ==
    \E lat \in ViewLatencies, ok \in BOOLEAN, json \in BOOLEAN,
       value \in ViewValues :
        /\ uc.pc = "fetch"
        /\ NoneDueBy(clock + lat)
        /\ ok \/ (~json /\ value = 0)
        /\ json \/ value = 0
        /\ Become(fetchResolved(At(clock + lat), ok, json, value),
                  Op("response", [ ok |-> ok, json |-> json, value |-> value ]))
        /\ UNCHANGED steps

\* fetch() rejects: a network error
ViewReject ==
    \E lat \in ViewLatencies :
        /\ uc.pc = "fetch"
        /\ NoneDueBy(clock + lat)
        /\ Become(fetchRejected(At(clock + lat)), Op("reject", 0))
        /\ UNCHANGED steps

\* Time passes up to the next timer, and its callback runs
ViewTimer ==
    \E tm \in timers :
        /\ \A o \in timers :
              o.due > tm.due \/ (o.due = tm.due /\ o.id >= tm.id)
        /\ Become(timerFires(At(tm.due), tm, 0), Op(tm.kind, tm.args))
        /\ UNCHANGED steps

\* A frame of the count animation, q quarters of its duration after the
\* previous one
ViewFrame ==
    \E f \in frames, q \in { 1, 4 } :
        /\ f.owner = -1
        /\ LET t == clock + q * (COUNT_DURATION \div 4)
           IN /\ NoneDueBy(t)
              /\ Become(countFrame([At(t) EXCEPT !.frames = @ \ {f}], t),
                        Op("frame", -1))
        /\ UNCHANGED steps

ViewNext ==
    \/ ViewResponse
    \/ ViewReject
    \/ ViewTimer
    \/ ViewFrame

SpecView == ViewInit /\ [][ViewNext]_vars

\* The step is a response with response.ok
OkResponse == lastOp'.op = "response" /\ lastOp'.arg.ok

\* The step is a response with response.ok whose body parses
ParsedResponse == OkResponse /\ lastOp'.arg.json

\* The step ends the attempt in progress: its response, its rejection or
\* its abort timer
AttemptEnds ==
    /\ uc.pc = "fetch"
    /\ \/ lastOp'.op \in { "response", "reject" }
       \/ lastOp'.op = "abort" /\ lastOp'.arg = uc.i

\* The course of one call of fetchWithRetry, where `success` says that the
\* step is the response the call returns: at most RETRY_ATTEMPTS requests;
\* on success the call returns that body and issues no request; an attempt
\* that ends otherwise is followed by the next request, at once or once the
\* retry timer has run, unless it was the last, and then the call throws;
\* the call throws in no other case, and issues no request once it is over
FetchSteps(success) ==
    /\ uc'.requests <= RETRY_ATTEMPTS
    /\ AttemptEnds /\ success =>
          /\ uc'.pc = "returned"
          /\ uc'.result = lastOp'.arg.value
          /\ uc'.requests = uc.requests
    /\ AttemptEnds /\ ~success /\ uc.requests < RETRY_ATTEMPTS =>
          \/ uc'.pc = "fetch" /\ uc'.requests = uc.requests + 1
          \/ /\ uc'.pc = "wait"
             /\ uc'.requests = uc.requests
             /\ \E tm \in timers' : tm.kind = "retry"
    /\ AttemptEnds /\ ~success /\ uc.requests = RETRY_ATTEMPTS =>
          uc'.pc = "threw"
    /\ uc'.pc = "threw" /\ uc.pc # "threw" =>
          AttemptEnds /\ ~success /\ uc.requests = RETRY_ATTEMPTS
    /\ uc.pc = "wait" =>
          IF lastOp'.op = "retry"
          THEN uc'.pc = "fetch" /\ uc'.requests = uc.requests + 1
          ELSE uc' = uc
    /\ uc.pc \in { "returned", "threw" } => uc' = uc

\* C19 as stated: fetchWithRetry issues at most 3 requests per call, returns
\* the body of the first ok response without a further request, tries again
\* after an error, a timeout or a non-ok response, and throws only after
\* all 3 attempts have failed.
C19_FirstOk == [][FetchSteps(OkResponse)]_vars

\* C19: fetchWithRetry issues at most 3 requests per call, returns the body
\* of the first ok response whose body parses (response.json() resolves)
\* without a further request, tries again after an error, a timeout, a
\* non-ok response or an ok response whose body does not parse, and throws
\* only after all 3 attempts have failed.
C19_FirstParsed == [][FetchSteps(ParsedResponse)]_vars

\* C19 witness: the call returned the body of the third response, the
\* second ok response it received
C19_Witness ==
    /\ uc.pc = "returned"
    /\ uc.requests = RETRY_ATTEMPTS
    /\ uc.oks = 2
    /\ uc.result = 5

\* C20: when fetchWithRetry throws, updateCount raises nothing; if the
\* cache holds an entry less than one hour old, its value becomes the
\* target value and the count animation starts, otherwise the target value
\* stays and the element, if there is one, shows the error text.
C20_CacheFallback ==
    [][ uc'.pc = "threw" /\ uc.pc # "threw" =>
          /\ ~thrown'
          /\ ~uc'.rejected
          /\ storage' = storage
          /\ IF storage.present
                /\ clock' - storage.timestamp < CACHE_MAX_AGE
             THEN /\ vc'.targetValue = storage.value
                  /\ vc'.text = vc.text
                  /\ vc.element => vc'.isAnimating
             ELSE /\ vc'.targetValue = vc.targetValue
                  /\ vc'.text = IF vc.element
                                THEN [ kind |-> "error", n |-> 0 ]
                                ELSE vc.text ]_vars

\* C20 witness: the third attempt has just failed while the cache entry is
\* one millisecond short of an hour old; its value is the target value
\* and the count animation runs
C20_Witness ==
    /\ uc.pc = "threw"
    /\ lastOp.op = "response"
    /\ storage.present
    /\ clock - storage.timestamp = CACHE_MAX_AGE - 1
    /\ vc.targetValue = storage.value
    /\ vc.isAnimating

\* C33 (as claimed): when fetchWithRetry returns a parsed body whose value
\* is the number v, for every v >= 0 (in the model 0 and 5), updateCount
\* sets targetValue to v, saves the entry {value: v, timestamp: now} and
\* does not put the error text into the element.
C33_ValueStored ==
    [][ ParsedResponse /\ uc.pc = "fetch" =>
          /\ uc'.pc = "returned"
          /\ vc'.targetValue = lastOp'.arg.value
          /\ storage' = [ present |-> TRUE, value |-> lastOp'.arg.value,
                          timestamp |-> clock' ]
          /\ vc'.text.kind # "error" ]_vars

\* C34 (as claimed): whatever ends attempt i = 1, 2 without a returned body
\* (a thrown error, the timeout, a non-ok response), fetchWithRetry then
\* waits RETRY_DELAY * i ms: it issues no request at that step and the
\* retry timer is armed for RETRY_DELAY * i ms later; the next request is
\* issued only when that timer runs; after the last attempt no retry timer
\* is armed.
C34_BackOff ==
    [][ /\ (AttemptEnds /\ ~ParsedResponse /\ uc.requests < RETRY_ATTEMPTS) =>
              /\ uc'.pc = "wait"
              /\ uc'.requests = uc.requests
              /\ \E tm \in timers' :
                    /\ tm.kind = "retry"
                    /\ tm.due = clock' + RETRY_DELAY * uc.requests
        /\ uc'.requests > uc.requests => lastOp'.op = "retry"
        /\ (AttemptEnds /\ uc.requests = RETRY_ATTEMPTS) =>
              \A tm \in timers' : tm.kind # "retry" ]_vars

(***************************************************************************)
(* SpecCount: SpecView with further calls of updateCount().  The element   *)
(* #view-count exists; the cache is empty or holds a recent entry.  Once a *)
(* call is over (it returned or threw) and while the count animation it    *)
(* started is running, some script may call updateCount() again, up to     *)
(* MaxCalls times.                                                         *)
(***************************************************************************)
MaxCalls == 1

CountInit ==
    /\ \E cache \in { c \in ViewCaches :
                        c.present => ViewStart - c.timestamp = 1000 } :
          Is(AlpineBioApp_init(
                 [Blank(LifeViewport, FALSE, FALSE, TRUE)
                     EXCEPT !.storage = cache, !.clock = ViewStart],
                 0, NoFailure),
             Op("init", 0))
    /\ steps = 0

CountAgain ==
    /\ uc.pc \in { "returned", "threw" }
    /\ vc.isAnimating
    /\ steps < MaxCalls
    /\ Become(updateCount(St), Op("updateCount", 0))
    /\ steps' = steps + 1

\* fetch() resolves with a response: ok with the value 5, or not ok
CountResponse ==
    \E lat \in ViewLatencies, ok \in BOOLEAN :
        /\ uc.pc = "fetch"
        /\ NoneDueBy(clock + lat)
        /\ LET value == IF ok THEN 5 ELSE 0
           IN Become(fetchResolved(At(clock + lat), ok, ok, value),
                     Op("response", [ ok |-> ok, json |-> ok, value |-> value ]))
        /\ UNCHANGED steps

\* A frame of the count animation, half its duration or the whole of it
\* after the previous one
CountFrame ==
    \E f \in frames, q \in { 2, 4 } :
        /\ f.owner = -1
        /\ LET t == clock + q * (COUNT_DURATION \div 4)
           IN /\ NoneDueBy(t)
              /\ Become(countFrame([At(t) EXCEPT !.frames = @ \ {f}], t),
                        Op("frame", -1))
        /\ UNCHANGED steps

CountNext ==
    \/ CountAgain
    \/ CountResponse
    \/ ViewTimer
    \/ CountFrame

SpecCount == CountInit /\ [][CountNext]_vars

\* C35 (as claimed): at the frame that ends a count animation (isAnimating
\* goes back to false) the displayed currentValue equals targetValue, also
\* when a later updateCount or a cache load changed targetValue while the
\* animation ran.
C35_EndsOnTarget ==
    [][ (vc.isAnimating /\ ~vc'.isAnimating) =>
          /\ vc'.currentValue = vc'.targetValue
          /\ vc'.text = [ kind |-> "number", n |-> vc'.targetValue ] ]_vars

(***************************************************************************)
(* SpecLang: the LanguageManager.  The page has two translatable elements  *)
(* (the second has an empty data-en) or none, with or without the selector *)
(* #lang-select, whose options are the two languages; localStorage holds   *)
(* no language or one of the two, and its writes succeed.  setLanguage is  *)
(* called with any of LangInputs, or the user picks an option.             *)
(***************************************************************************)
LangInputs == LANGUAGES \cup { "de", "RU", "" }

LangElements ==
    { << >>,
      << [ en |-> "Hello", ru |-> "Privet", text |-> "Privet" ],
         [ en |-> "", ru |-> "Gory", text |-> "Gory" ] >> }

LangInit ==
    /\ \E stored \in LANGUAGES \cup { "none" }, sel \in BOOLEAN,
          els \in LangElements :
          Is(AlpineBioApp_init(
                 [Blank(LifeViewport, FALSE, FALSE, TRUE)
                     EXCEPT !.lang = [NoLanguageManager
                                         EXCEPT !.stored = stored,
                                                !.hasSelector = sel,
                                                !.selectorValue =
                                                    IF sel THEN "ru" ELSE @,
                                                !.elements = els]],
                 0, NoFailure),
             Op("init", 0))
    /\ steps = 0

\* some script calls setLanguage(l)
LangSet ==
    \E l \in LangInputs : Call(setLanguage(St, l), Op("setLanguage", l))

\* the user picks the option l of #lang-select: its 'change' listener
LangSelect ==
    \E l \in LANGUAGES :
        /\ lang.hasSelector
        /\ l # lang.selectorValue
        /\ Call(setLanguage([St EXCEPT !.lang.selectorValue = l], l),
                Op("change", l))

LangNext ==
    \/ LangSet
    \/ LangSelect

SpecLang == LangInit /\ [][LangNext]_vars

konamiSequence == << 38, 38, 40, 40, 37, 39, 37, 39, 66, 65 >>

KeyCodes == { 13, 37, 38, 39, 40, 65, 66 }

\* The decimal digits of n >= 0, as Number.prototype.toString writes them
RECURSIVE Digits(_)
Digits(n) == IF n < 10 THEN << n >> ELSE Digits(n \div 10) \o << n % 10 >>

\* Array.prototype.toString: the elements joined by "," (here -1)
RECURSIVE toString(_)
toString(a) ==
    IF a = << >> THEN << >>
    ELSE IF Len(a) = 1 THEN Digits(a[1])
    ELSE Digits(a[1]) \o << -1 >> \o toString(Tail(a))

\* the keydown listener without the shift of the oldest code
keydown_noshift(s, keyCode) ==
    LET code == Append(s.konami.konamiCode, keyCode)
        all == Append(s.konami.pressed, keyCode)
    IN IF toString(code) = toString(konamiSequence)
       THEN [s EXCEPT !.konami = [ konamiCode |-> << >>, pressed |-> << >>,
                                   eggs |-> @.eggs + 1, before |-> all ]]
       ELSE [s EXCEPT !.konami.konamiCode = code, !.konami.pressed = all]

\* the keydown listener
keydown(s, keyCode) ==
    LET pushed == Append(s.konami.konamiCode, keyCode)
        code == IF Len(pushed) > Len(konamiSequence) THEN Tail(pushed)
                ELSE pushed
        all == Append(s.konami.pressed, keyCode)
    IN IF toString(code) = toString(konamiSequence)
       THEN [s EXCEPT !.konami = [ konamiCode |-> << >>, pressed |-> << >>,
                                   eggs |-> @.eggs + 1, before |-> all ]]
       ELSE [s EXCEPT !.konami.konamiCode = code, !.konami.pressed = all]

KeyStarts ==
    { SubSeq(konamiSequence, 1, n) : n \in 0 .. 9 }
        \cup { << c >> \o SubSeq(konamiSequence, 1, 9) : c \in { 13, 38 } }

KeysInit ==
    /\ \E a \in KeyStarts :
          Is([Blank(LifeViewport, FALSE, FALSE, TRUE)
                 EXCEPT !.konami.konamiCode = a, !.konami.pressed = a],
             Op("init", 0))
    /\ steps = 0

KeyDown ==
    \E keyCode \in KeyCodes : Call(keydown(St, keyCode), Op("keydown", keyCode))

SpecKeys == KeysInit /\ [][KeyDown]_vars

\* The last n elements of a, all of a if it has fewer
Last(a, n) == SubSeq(a, Max(1, Len(a) - n + 1), Len(a))

\* C37: the buffer holds the last 10 key codes pressed since the last
\* trigger (all of them if fewer), never more than 10; a key triggers the
\* easter egg exactly when, with it, the 10 most recent codes since the
\* last trigger are up, up, down, down, left, right, left, right, B, A,
\* whatever was pressed before them; the trigger empties the buffer.
C37_Konami ==
    /\ [](/\ Len(konami.konamiCode) <= Len(konamiSequence)
          /\ konami.konamiCode = Last(konami.pressed, Len(konamiSequence)))
    /\ [][ lastOp'.op = "keydown" =>
             LET recent == Last(Append(konami.pressed, lastOp'.arg),
                                Len(konamiSequence))
             IN IF recent = konamiSequence
                THEN /\ konami'.eggs = konami.eggs + 1
                     /\ konami'.konamiCode = << >>
                     /\ konami'.pressed = << >>
                ELSE /\ konami'.eggs = konami.eggs
                     /\ konami'.konamiCode = recent ]_vars

\* C37 witness: three ups and then the rest of the sequence: the A
\* triggered the easter egg and emptied the buffer
C37_Witness ==
    /\ lastOp = Op("keydown", 65)
    /\ konami.eggs = 1
    /\ konami.konamiCode = << >>
    /\ konami.before = << 38 >> \o konamiSequence

(***************************************************************************)
(* SpecParticles: one particle of the ParticlesSystem.  The system was     *)
(* created in a 100 x 100 window (one particle) that has since grown to    *)
(* 200 x 100; the particle has one of the velocities createParticles       *)
(* gives (-0.25, -0.125, 0, 0.125 px per frame) and is on an edge, one     *)
(* move from it or inside.  Frames update it; a resize (with its debounced *)
(* handler) gives the canvas the size of the window, which may leave the   *)
(* particle outside the canvas.  lastOp.arg counts, per axis, the frames   *)
(* in a row since the last resize that left the particle on an edge.       *)
(***************************************************************************)
ParticleSpeeds == { ((2 * r - RDen) * PX) \div (4 * RDen) : r \in 0 .. RDen - 1 }

ParticleXs == { 0, 1600, 150 * PX, 200 * PX - 1600, 200 * PX }
ParticleYs == { 0, 50 * PX, 100 * PX }

\* the window takes the size vp and the debounced resize handlers run
particlesResized(s, vp) ==
    resizeDebounced([windowResize(s, vp) EXCEPT !.debounced = FALSE])

ParticlesInit ==
    /\ \E x \in ParticleXs, y \in ParticleYs, vx \in ParticleSpeeds,
          vy \in ParticleSpeeds :
          LET s == particlesResized(Page(<<100, 100>>, FALSE, TRUE, TRUE, 0),
                                    LifeViewport)
          IN Is([s EXCEPT !.ps.particles =
                     << [s.ps.particles[1] EXCEPT !.x = x, !.y = y,
                                                  !.vx = vx, !.vy = vy] >>],
                Op("init", [ onX |-> 0, onY |-> 0 ]))
    /\ steps = 0

\* a frame of the ParticlesSystem
ParticlesUpdate ==
    \E f \in frames, dt \in LifeGaps :
        /\ f.owner = 0
        /\ LET s == particlesFrame(St, f, now + dt)
               p == s.ps.particles[1]
           IN Call(s, Op("frame",
                         [ onX |-> IF p.x \in { 0, s.ps.width * PX }
                                   THEN lastOp.arg.onX + 1 ELSE 0,
                           onY |-> IF p.y \in { 0, s.ps.height * PX }
                                   THEN lastOp.arg.onY + 1 ELSE 0 ]))

ParticlesResize ==
    \E vp \in Viewports :
        /\ vp # <<innerWidth, innerHeight>>
        /\ Call(particlesResized(St, vp), Op("resize", [ onX |-> 0, onY |-> 0 ]))

ParticlesNext ==
    \/ ParticlesUpdate
    \/ ParticlesResize

SpecParticles == ParticlesInit /\ [][ParticlesNext]_vars

COLLAPSE_DELAY == 300
FriendsGaps == { 0, 100, 200, COLLAPSE_DELAY }

\* expandFriends()
expandFriends(s) ==
    requestAnimationFrame(
        [s EXCEPT !.friends.display = "grid", !.friends.opacity = 0,
                  !.friends.ariaExpanded = TRUE],
        -3)

\* the requestAnimationFrame callback of expandFriends
expandFrame(s, f) ==
    [s EXCEPT !.frames = @ \ {f}, !.friends.opacity = 100]

\* collapseFriends()
collapseFriends(s) ==
    setTimeout([s EXCEPT !.friends.opacity = 0,
                         !.friends.ariaExpanded = FALSE],
               "hide", COLLAPSE_DELAY, 0)

\* the setTimeout callback of collapseFriends
collapseTimeout(s, tm) ==
    [s EXCEPT !.timers = @ \ {tm}, !.friends.display = "none"]

\* toggleFriends()
toggleFriends(s) ==
    LET s1 == [s EXCEPT !.friends.isExpanded = ~@]
    IN IF s1.friends.isExpanded THEN expandFriends(s1)
       ELSE collapseFriends(s1)

FriendsInit ==
    /\ Is(AlpineBioApp_init(Blank(LifeViewport, FALSE, FALSE, TRUE), 0,
                            "viewCounter"),
          Op("init", 0))
    /\ steps = 0

\* a click on #friends-toggle, d ms after the previous step
FriendsClick ==
    \E d \in FriendsGaps :
        /\ \A tm \in timers : tm.kind = "hide" => tm.due > clock + d
        /\ Call(toggleFriends(At(clock + d)), Op("click", d))

\* time passes up to the next timer of collapseFriends, and it runs
FriendsTimer ==
    \E tm \in timers :
        /\ tm.kind = "hide"
        /\ \A o \in timers : o.kind = "hide" => o.due >= tm.due
        /\ Become(collapseTimeout(At(tm.due), tm), Op("hide", 0))
        /\ UNCHANGED steps

FriendsFrame ==
    \E f \in frames :
        /\ f.owner = -3
        /\ Become(expandFrame(St, f), Op("frame", -3))
        /\ UNCHANGED steps

FriendsNext ==
    \/ FriendsClick
    \/ FriendsTimer
    \/ FriendsFrame

SpecFriends == FriendsInit /\ [][FriendsNext]_vars

\* C31 (as claimed): aria-expanded always equals isExpanded, and whenever
\* no timer of collapseFriends is pending the list is displayed
\* (display: grid) exactly when isExpanded is true and hidden
\* (display: none) exactly when it is false.
C31_DisplayMatches ==
    /\ friends.ariaExpanded = friends.isExpanded
    /\ (\A tm \in timers : tm.kind # "hide") =>
          friends.display = (IF friends.isExpanded THEN "grid" ELSE "none")

(***************************************************************************)
(* SpecTick: the frame loop of one SnowflakeManager in frame time.  Frame  *)
(* callbacks come half a frame, a frame or 1.6 s after the previous time   *)
(* stamp; pause() and resume() are called in between, resume() at once or  *)
(* 1.6 s later.  lastOp records the time stamp of a frame, and for a       *)
(* resume() of a paused manager ("resume") the time it stayed paused.      *)
(***************************************************************************)
TickGaps == FieldGaps \cup { 160000 }
PauseGaps == { 0, 160000 }

TickInit ==
    /\ \E seed \in Seeds :
          Is(Page(LifeViewport, TRUE, FALSE, TRUE, seed), Op("init", 0))
    /\ steps = 0

\* a pending frame callback runs
TickFrame ==
    \E f \in frames, dt \in TickGaps, sin \in LifeSin, seed \in LifeSeeds :
        Call(snowFrame(St, f, now + dt, sin, seed), Op("frame", now + dt))

TickPause == Call(pause(St, modSnow), Op("pause", now))

TickResume ==
    \E gap \in PauseGaps :
        Call(resume([St EXCEPT !.now = now + gap], modSnow),
             Op(IF managers[modSnow].isActive THEN "resume-active" ELSE "resume",
                gap))

TickNext ==
    \/ TickFrame
    \/ TickPause
    \/ TickResume

SpecTick == TickInit /\ [][TickNext]_vars

\* The fall of snowflake sf in deltaTime takes it past the bottom margin
FallsOut(sf, deltaTime) ==
    sf.y + sf.speed * deltaTime > (innerHeight + RespawnMargin) * PX

\* C23: every snowflake has a positive fall speed; the pool is updated only
\* with a positive deltaTime (of FRAME_TIME or more), whether the frame is
\* the first after construction or follows pause() and resume(); and an
\* update strictly increases the y of every snowflake it does not respawn.
\* No other step of the loop changes a snowflake.
C23_OnlyFalls ==
    /\ [](\A k \in 1 .. Len(managers[modSnow].snowflakes) :
             managers[modSnow].snowflakes[k].speed > 0)
    /\ [][ LET old == managers[modSnow].snowflakes
               new == managers'[modSnow].snowflakes
               deltaTime == lastOp'.arg - managers[modSnow].lastUpdate
           IN /\ Len(new) = Len(old)
              /\ new # old =>
                    /\ lastOp'.op = "frame"
                    /\ deltaTime > 0
                    /\ \A k \in 1 .. Len(old) :
                          new[k].y > old[k].y \/ FallsOut(old[k], deltaTime)
       ]_vars

\* C23 witness: a frame that came 1.6 s or more after construction, after
\* pause() and resume(), updated the pool; a snowflake fell into the
\* viewport
C23_Witness ==
    /\ lastOp.op = "frame"
    /\ steps >= 3
    /\ managers[modSnow].lastUpdate = lastOp.arg
    /\ lastOp.arg > 160000
    /\ \E k \in 1 .. Len(managers[modSnow].snowflakes) :
          managers[modSnow].snowflakes[k].y > 0

\* C24: the pool is updated at most once per FRAME_TIME of frame time.  A
\* frame callback of an active manager whose time stamp is less than
\* FRAME_TIME after lastUpdate changes no snowflake and leaves lastUpdate
\* as it is, one that is FRAME_TIME or more after it sets lastUpdate to its
\* time stamp; either way the manager stays active and requests the next
\* frame, its only pending one.  Nothing else changes lastUpdate or a
\* snowflake.
C24_FrameThrottle ==
    [][ LET m == managers[modSnow]
            n == managers'[modSnow]
            deltaTime == lastOp'.arg - m.lastUpdate
        IN /\ (lastOp'.op = "frame" /\ m.isActive) =>
                 /\ deltaTime < FRAME_TIME =>
                       /\ n.snowflakes = m.snowflakes
                       /\ n.lastUpdate = m.lastUpdate
                 /\ deltaTime >= FRAME_TIME => n.lastUpdate = lastOp'.arg
                 /\ n.isActive
                 /\ n.animationFrame = nextHandle
                 /\ { f \in frames' : f.owner = modSnow }
                       = { [ h |-> nextHandle, owner |-> modSnow ] }
           /\ (n.lastUpdate # m.lastUpdate \/ n.snowflakes # m.snowflakes) =>
                 /\ lastOp'.op = "frame"
                 /\ n.lastUpdate - m.lastUpdate >= FRAME_TIME ]_vars

\* C24 witness: two frames, each half a frame after the one before, came
\* after an update; neither updated the pool, and the next frame is
\* requested
C24_Witness ==
    /\ lastOp.op = "frame"
    /\ managers[modSnow].lastUpdate > 0
    /\ lastOp.arg - managers[modSnow].lastUpdate = FRAME_TIME - 1
    /\ managers[modSnow].isActive
    /\ managers[modSnow].animationFrame # 0

(***************************************************************************)
(* SpecDown: the page after a complete init(), with AlpineBioApp.destroy() *)
(* among the events.  destroy() is called once; init() is not called       *)
(* again, so isInitialized is false exactly from destroy() on.             *)
(***************************************************************************)
\* AlpineBioApp.destroy(): of the modules only the SnowflakeManager has a
\* destroy method
AlpineBioApp_destroy(s) ==
    LET s1 == IF Has(s, "snowflakeManager") /\ s.modSnow # 0
              THEN destroy(s, s.modSnow)
              ELSE s
    IN [s1 EXCEPT !.modules = << >>, !.modSnow = 0, !.isInitialized = FALSE]

DownInit ==
    /\ Is(AlpineBioApp_init(Blank(LifeViewport, TRUE, TRUE, TRUE), 0,
                            NoFailure),
          Op("init", 0))
    /\ steps = 0

DownDestroy ==
    /\ isInitialized
    /\ Call(AlpineBioApp_destroy(St), Op("destroy", 0))

DownNext ==
    \/ DownDestroy
    \/ BootVisibility
    \/ BootResize
    \/ BootDebounced
    \/ BootRestart
    \/ BootTheme
    \/ BootThemeTimeout
    \/ BootToggle
    \/ BootFrame

SpecDown == DownInit /\ [][DownNext]_vars

\* C29 (as claimed): from destroy() on the module map is empty and stays
\* empty, isInitialized is false, no frame loop keeps running (no
\* SnowflakeManager and no ParticlesSystem is active, the
\* PerformanceMonitor does not monitor), and the resize timer that was
\* pending at destroy() has not created a SnowflakeManager that is in the
\* map or active.
C29_DestroyCleans ==
    ~isInitialized =>
        /\ modules = << >>
        /\ modSnow = 0
        /\ \A i \in ManagerIds : ~managers[i].isActive
        /\ ~ps.isActive
        /\ ~pm.isMonitoring

(***************************************************************************)
(* SpecInit: calls of AlpineBioApp.init() step by step.  init() is async:  *)
(* a call runs up to its first await, and its continuation runs later as a *)
(* microtask.  initCalls.pc[c] is where call c is: "dom" (awaiting         *)
(* DOMContentLoaded), "mods" (awaiting the promise of initializeModules,   *)
(* whose body has no await and ran synchronously), "done" (returned).      *)
(* initCalls.queue holds the calls whose continuation is queued, in order. *)
(* No constructor fails.                                                   *)
(***************************************************************************)
\* the try block of init() from `await this.initializeModules()` up to the
\* await
init_modules(s, c, seed) ==
    [initializeModules(s, seed, NoFailure)
        EXCEPT !.initCalls.pc[c] = "mods", !.initCalls.queue = Append(@, c)]

\* init(), up to its first await
init_enter(s, seed) ==
    LET c == Len(s.initCalls.pc) + 1
    IN IF s.isInitialized
       THEN [s EXCEPT !.initCalls.pc = Append(@, "done")]
       ELSE IF s.readyState = "loading"
       THEN [s EXCEPT !.initCalls.pc = Append(@, "dom")]
       ELSE init_modules([s EXCEPT !.initCalls.pc = Append(@, "dom")], c, seed)

\* the continuation of the call at the head of the microtask queue
init_resume(s, seed) ==
    LET c == Head(s.initCalls.queue)
        s1 == [s EXCEPT !.initCalls.queue = Tail(@)]
    IN IF s.initCalls.pc[c] = "dom"
       THEN init_modules(s1, c, seed)
       ELSE [start(setupGlobalEvents(s1))
                EXCEPT !.isInitialized = TRUE, !.initCalls.pc[c] = "done"]

\* 'DOMContentLoaded': the once-listeners of the waiting calls resolve
\* their promises, in the order of registration
DOMContentLoaded(s) ==
    [s EXCEPT !.readyState = "interactive",
              !.initCalls.queue =
                  @ \o SelectSeq([c \in 1 .. Len(s.initCalls.pc) |-> c],
                                 LAMBDA c : s.initCalls.pc[c] = "dom")]

InitStart ==
    /\ \E ds \in BOOLEAN, dc \in BOOLEAN, rs \in { "loading", "complete" } :
          Is([Blank(LifeViewport, ds, dc, TRUE) EXCEPT !.readyState = rs],
             Op("new", 0))
    /\ steps = 0

\* some script calls app.init()
InitCall ==
    \E seed \in Seeds : Call(init_enter(St, seed), Op("init", 0))

\* the next microtask runs
InitResume ==
    /\ initCalls.queue # << >>
    /\ \E seed \in Seeds : Call(init_resume(St, seed), Op("resume", 0))

InitLoaded ==
    /\ readyState = "loading"
    /\ Call(DOMContentLoaded(St), Op("DOMContentLoaded", 0))

InitNext ==
    \/ InitCall
    \/ InitResume
    \/ InitLoaded

SpecInit == InitStart /\ [][InitNext]_vars

\* C28 (as claimed): whatever calls of init() were made and however far
\* each has run, the modules were constructed at most once (at most one
\* SnowflakeManager exists) and the application's global listeners were
\* registered at most once (the list of 'visibilitychange' listeners holds
\* the application's at most once).
C28_InitOnce ==
    /\ Len(managers) <= 1
    /\ Cardinality({ k \in 1 .. Len(visListeners) : visListeners[k] = 0 }) <= 1

(***************************************************************************)
(* SpecTheme: the theme of the page.  init() has run on a profile whose    *)
(* localStorage holds no theme or one the user chose in an earlier visit;  *)
(* then the user clicks the theme button, the system colour scheme         *)
(* changes, and the timers of handleThemeChange fire, in any order.        *)
(***************************************************************************)
\* window.dispatchEvent('themechange') to listeners k .. : the application
\* registers one in every setupGlobalEvents, together with its
\* 'visibilitychange' listener
RECURSIVE dispatchThemeChange(_, _)
dispatchThemeChange(s, k) ==
    IF k > Len(s.visListeners) THEN s
    ELSE dispatchThemeChange(IF s.visListeners[k] = 0
                             THEN handleThemeChange(s) ELSE s, k + 1)

\* setTheme(theme)
setTheme(s, th) == dispatchThemeChange(setTheme_quiet(s, th), 1)

\* toggleTheme()
toggleTheme(s) ==
    setTheme(s, IF s.theme.currentTheme = LIGHT THEN DARK ELSE LIGHT)

\* handleSystemThemeChange(e)
handleSystemThemeChange(s, matches) ==
    IF getFromStorage(s, "none") = "none"
    THEN setTheme(s, IF matches THEN DARK ELSE LIGHT)
    ELSE s

Profile(stored, writable, prefersDark) ==
    [NoThemeManager EXCEPT !.stored = stored, !.writable = writable,
                           !.prefersDark = prefersDark,
                           !.manual = (stored # "none")]

ThemeInit ==
    /\ \E stored \in { "none", LIGHT, DARK }, writable \in BOOLEAN,
          prefersDark \in BOOLEAN :
          Is(AlpineBioApp_init(
                 [Blank(LifeViewport, TRUE, TRUE, TRUE)
                     EXCEPT !.theme = Profile(stored, writable, prefersDark)],
                 0, NoFailure),
             Op("init", 0))
    /\ steps = 0

\* the user clicks #theme-btn
ThemeToggle ==
    Call(toggleTheme([St EXCEPT !.theme.manual = TRUE]), Op("toggle", 0))

\* the system colour scheme changes: the media query dispatches 'change'
ThemeSystem ==
    Call(handleSystemThemeChange(
             [St EXCEPT !.theme.prefersDark = ~@], ~theme.prefersDark),
         Op("system", 0))

ThemeTimer ==
    /\ themeTimers > 0
    /\ Call(themeTimeout(St), Op("themeTimeout", 0))

ThemeNext ==
    \/ ThemeToggle
    \/ ThemeSystem
    \/ ThemeTimer

SpecTheme == ThemeInit /\ [][ThemeNext]_vars

\* C21 (as claimed): a change of the system colour scheme switches the
\* page theme to match if and only if the user has not manually set a
\* theme (no theme was stored at start-up and the button has not been
\* clicked): then the theme after the change is the system's; otherwise
\* the change leaves the theme as it is.
C21_FollowsSystem ==
    [][ lastOp'.op = "system"
          => IF theme.manual
             THEN /\ theme'.currentTheme = theme.currentTheme
                  /\ theme'.dataTheme = theme.dataTheme
             ELSE /\ theme'.currentTheme
                        = (IF theme'.prefersDark THEN DARK ELSE LIGHT)
                  /\ theme'.dataTheme = theme'.currentTheme ]_vars

(***************************************************************************)
(* SpecThrottle: the mouse handler of the SnowflakeManager behind          *)
(* Utils.throttle(func, THROTTLE_DELAY), in time.  Mouse events come a few *)
(* ms or more than the delay after the previous step.  A timer runs when   *)
(* the browser gets to it: at its due time, or later when events were      *)
(* handled first (setTimeout promises no more than "not before").          *)
(***************************************************************************)
ThrottleStart == 1000
ThrottleGaps == { 5, THROTTLE_DELAY, THROTTLE_DELAY + 1 }

\* func.apply(this, args) inside the throttle closure, with the history of
\* the executions
throttle_exec(s, clientX) ==
    [mouseHandler(s, s.modSnow, clientX)
        EXCEPT !.throttled.execs = @ + 1,
               !.throttled.lastExec = s.clock,
               !.throttled.minGap =
                   IF s.throttled.execs = 0 THEN @
                   ELSE IF @ = -1 THEN s.clock - s.throttled.lastExec
                   ELSE Min(@, s.clock - s.throttled.lastExec)]

\* the function returned by Utils.throttle(func, delay), called with the
\* event
throttle_call(s, delay, clientX) ==
    LET currentTime == s.clock
    IN IF currentTime - s.throttled.lastExecTime > delay
       THEN [throttle_exec(s, clientX)
                EXCEPT !.throttled.lastExecTime = currentTime]
       ELSE LET s1 == clearTimeout(s, s.throttled.timeoutId)
            IN [setTimeout(s1, "trailing",
                           delay - (currentTime - s.throttled.lastExecTime),
                           clientX)
                   EXCEPT !.throttled.timeoutId = s1.nextTimer]

\* the setTimeout callback of the throttle closure
throttle_trailing(s, clientX) ==
    [throttle_exec(s, clientX) EXCEPT !.throttled.lastExecTime = s.clock]

ThrottleInit ==
    /\ Is([Page(LifeViewport, TRUE, FALSE, TRUE, 0)
              EXCEPT !.clock = ThrottleStart],
          Op("init", 0))
    /\ steps = 0

\* 'mousemove' d ms after the previous step
ThrottleMouse ==
    \E d \in ThrottleGaps, clientX \in MouseXs(innerWidth) :
        Call(throttle_call(At(clock + d), THROTTLE_DELAY, clientX),
             Op("mousemove", clientX))

\* the pending timer tm runs, at its due time or, if that has passed, now
ThrottleTimer ==
    \E tm \in timers :
        /\ tm.kind = "trailing"
        /\ Call(throttle_trailing(
                    [At(Max(clock, tm.due)) EXCEPT !.timers = @ \ {tm}],
                    tm.args),
                Op("trailing", tm.args))

ThrottleNext ==
    \/ ThrottleMouse
    \/ ThrottleTimer

SpecThrottle == ThrottleInit /\ [][ThrottleNext]_vars

\* C30 (as claimed): any two executions of the throttled function are at
\* least THROTTLE_DELAY ms apart, whenever the calls come and whenever the
\* timers run.
C30_RateLimited ==
    throttled.minGap = -1 \/ throttled.minGap >= THROTTLE_DELAY

\* C25 (as claimed): time spent paused is not counted as fall time.  The
\* first pool update after resume() of a paused manager, here the one of
\* the frame that follows resume() directly, advances the y of every
\* snowflake it does not respawn by the fall for the time since resume(),
\* or else by the fall for the time since the last update less the time
\* spent paused.
C25_PauseNotCounted ==
    [][ ( /\ lastOp.op = "resume"
          /\ lastOp'.op = "frame"
          /\ managers'[modSnow].lastUpdate = lastOp'.arg )
          => \A k \in 1 .. Len(managers[modSnow].snowflakes) :
                LET sf == managers[modSnow].snowflakes[k]
                    nf == managers'[modSnow].snowflakes[k]
                    sinceUpdate == lastOp'.arg - managers[modSnow].lastUpdate
                IN \/ FallsOut(sf, sinceUpdate)
                   \/ nf.y = sf.y + sf.speed * (lastOp'.arg - now)
                   \/ nf.y = sf.y + sf.speed * (sinceUpdate - lastOp.arg)
       ]_vars

====
